---- MODULE Spec2Model ----
(***************************************************************************)
(* Model of the YouTube Video Summarizer extension's background context:   *)
(*   - BackgroundService (src/src/background.ts): the Coordinator,         *)
(*   - CacheService (src/unnamed/part_000, lines 1038-1276): Result Cache, *)
(*   - GeminiService (src/unnamed/part_000, lines 639-1037): the           *)
(*     Summarization Client.                                               *)
(* Four specifications share the module:                                   *)
(*   Spec          concurrent requests handled by the Coordinator          *)
(*   SpecCache     CacheService calls made one after another               *)
(*   SpecChunks    cleanTranscript and splitIntoChunks on bounded inputs   *)
(*   SpecSummarize one GeminiService.summarize call against the API        *)
(***************************************************************************)
EXTENDS Integers, Sequences, FiniteSets, TLC

VARIABLES
    \* ---- SpecChunks
    text,               \* the raw transcript handed to cleanTranscript
    maxChunkLength,     \* splitIntoChunks' second parameter
    cleanedTranscript,  \* cleanTranscript(text)
    splitResult,        \* splitIntoChunks(cleanedTranscript, maxChunkLength)
    stage,              \* "raw" -> "cleaned" -> "split"
    \* ---- Spec and SpecCache: the world the background context runs in
    now,                \* Date.now(), in milliseconds
    store,              \* chrome.storage.local: key -> entry
    \* ---- SpecCache
    lastCall,           \* the CacheService call made last, with what it returned
    written,            \* per videoId: the latest setSummary (when, what)
    \* ---- Spec
    geminiApiKey,       \* chrome.storage.sync: is 'geminiApiKey' stored?
    isInitialized,      \* BackgroundService.isInitialized
    processingVideos,   \* BackgroundService.processingVideos
    pc,                 \* per request: where its handler is suspended
    req,                \* per request: the message received
    result,             \* per request: what gemini.summarize resolved to
    pendingEntry,       \* per request: the entry handed to storage.local.set
    resp,               \* per request: what was passed to sendResponse
    calls,              \* per request: the external calls it made, in order
    lastReturned,       \* the summarizeVideo success answered by the latest step
    \* ---- SpecSummarize: one GeminiService.summarize call
    apiKey,             \* GeminiService.apiKey
    model,              \* GeminiService.model
    transcript,         \* the transcript argument
    chunks,             \* splitIntoChunks(cleanTranscript(transcript), ...)
    chunkIndex,         \* the position of the for loop over chunks
    summaries,          \* the summaries pushed so far
    callText,           \* summarizeChunkWithRetry's text argument
    isFinalSummary,     \* summarizeChunkWithRetry's isFinalSummary argument
    attempt,            \* summarizeChunkWithRetry's attempt argument
    returned,           \* what the summarizeChunkWithRetry call resolved to
    finalSummary,       \* finalSummary
    keyPoints,          \* what extractKeyPoints returned
    topics,             \* what extractTopics returned
    sumPc,              \* where summarize is suspended
    sumResult,          \* what summarize resolved to
    clock,              \* milliseconds spent in setTimeout waits so far
    callNo,             \* the number of the summarizeChunkWithRetry call
    outcomes,           \* the answers to the requests of the current call
    waits,              \* the delays waited within the current call
    chunkReturns,       \* per chunk, in order: what its call resolved to
    requests,           \* every generation request sent, in order
    enrichment          \* how the keyPoints and topics requests were answered

chunkVars == <<text, maxChunkLength, cleanedTranscript, splitResult, stage>>

worldVars == <<now, store>>

cacheVars == <<lastCall, written>>

coordVars == <<geminiApiKey, isInitialized, processingVideos, pc, req, result,
               pendingEntry, resp, calls, lastReturned>>

sumVars == <<apiKey, model, transcript, chunks, chunkIndex, summaries,
             callText, isFinalSummary, attempt, returned, finalSummary,
             keyPoints, topics, sumPc, sumResult, clock, callNo, outcomes,
             waits, chunkReturns, requests, enrichment>>

\* extractTranscript (content script), from its segment query on
VARIABLES
    dom,                \* the segment elements under the transcript container
    segments,           \* const segments = findSegments(transcriptContainer)
    retrySegments,      \* const retrySegments = findSegments(...)
    extPc,              \* where extractTranscript stands
    extResult           \* what extractTranscript settled to

extVars == <<dom, segments, retrySegments, extPc, extResult>>

\* the message listeners of the background and of the content script
VARIABLES
    msgPending,         \* the message a listener has yet to answer
    msgLog,             \* every message answered, with the sendResponse value
    contentInitialized  \* isInitialized of the content script

msgVars == <<msgPending, msgLog, contentInitialized>>

\* CacheService.cleanup
VARIABLES
    swPc,               \* where cleanup stands
    swData,             \* const data = await chrome.storage.local.get(null)
    swNow,              \* const now = Date.now()
    keysToRemove        \* the keys cleanup collected

sweepVars == <<swPc, swData, swNow, keysToRemove>>

\* one request served while operations of chrome.storage.local may reject
VARIABLES
    fPc,                \* where the request stands
    fReq,               \* the request: its action and videoId
    fFaults,            \* the storage operations that rejected
    fReturned,          \* what the latest CacheService method settled to
    fSummarized,        \* what gemini.summarize resolved to
    fResp               \* the response to the request

faultVars == <<fPc, fReq, fFaults, fReturned, fSummarized, fResp>>

\* GeminiService.initialize and findAndSetModel
VARIABLES
    listing,            \* the models the listing request answers with
    selModel,           \* this.model
    selPc,              \* where initialize stands
    selResult           \* what initialize settled to

selVars == <<listing, selModel, selPc, selResult>>

\* BackgroundService.ensureContentScript
VARIABLES
    ensPc,              \* where ensureContentScript stands
    ensPingLog,         \* how each ping of this call was answered, in order
    ensInjections,      \* the executeScript calls made
    ensDelays,          \* the delays waited, in order
    ensAttempt,         \* i of the verification loop
    ensResult           \* what ensureContentScript settled to

ensVars == <<ensPc, ensPingLog, ensInjections, ensDelays, ensAttempt,
             ensResult>>

\* content script: initialization state
VARIABLES
    initializationPromise,   \* "null", "pending", "resolved" or "rejected"
    initializationAttempts,  \* attempts counted so far
    scriptInitialized,       \* isInitialized of the content script
    pageReady,               \* on a watch page with the player and video elements
    initWaiting,             \* the request waiting for initializeContentScript
    initLog                  \* the responses sent, in order

initVars == <<initializationPromise, initializationAttempts,
              scriptInitialized, pageReady, initWaiting, initLog>>

\* BackgroundService.handleExportSummary
VARIABLES
    expSummary,         \* the Summary of the exportSummary request
    expFormat,          \* its format
    expPc,              \* "ready" before the handler ran, "done" after
    expResp             \* what handleExportSummary returned

expVars == <<expSummary, expFormat, expPc, expResp>>

\* extractTranscript (content script), up to its segment query
VARIABLES
    gateAttempt,        \* i of the loop of waitForVideoPlayer
    readyObserved,      \* a poll saw the player, the loaded video, the controls
    transcriptContainer,\* TRUE once the variable holds an element
    menuButtons,        \* the menu buttons the loop has yet to try
    retryCount,         \* retryCount of the container wait loop
    timerDelay          \* the delay of the last setTimeout awaited, 0: none

gateVars == <<gateAttempt, readyObserved, transcriptContainer, menuButtons,
              retryCount, timerDelay>>

\* the menu fallback of extractTranscript
VARIABLES
    captions,           \* const hasCaptions
    menuCount,          \* menuButtons.length
    menuIndex,          \* the place in menuButtons of the button of this round
    foundTranscript,    \* let foundTranscript
    menuScan,           \* what the last round came to
    menuClicks,         \* the clicks made, in order
    menuPc,             \* where the fallback stands
    menuResult          \* what the fallback came to

menuVars == <<captions, menuCount, menuIndex, foundTranscript, menuScan,
              menuClicks, menuPc, menuResult>>

\* BackgroundService.initialize and the timer of scheduleCleanup
VARIABLES
    bootInitialized,    \* this.isInitialized
    bootPromise,        \* this.initializationPromise: "none", "pending", ...
    bodyRuns,           \* how often the body of initialize was started
    bodiesWaiting,      \* the bodies that await initializeGemini
    tabListeners,       \* the calls of initializeTabListeners
    navListeners,       \* the calls of setupNavigationListeners
    timerStarts,        \* the instants at which setInterval was called
    sweepTimers,        \* the calls of setInterval
    sweepFired,         \* the cleanups started, by timer and instant
    bootClock,          \* the time since the context started
    bootMessages        \* the messages the listener has received

bootVars == <<bootInitialized, bootPromise, bodyRuns, bodiesWaiting,
              tabListeners, navListeners, timerStarts, sweepTimers,
              sweepFired, bootClock, bootMessages>>

\* two calls of GeminiService.summarize that differ in their options only
VARIABLES
    optTranscript,      \* the transcript given to both calls
    optA,               \* the options of the first call
    optB,               \* the options of the second call
    runA,               \* where the first call stands
    runB                \* where the second call stands

optVars == <<optTranscript, optA, optB, runA, runB>>

\* the two onMessage listeners, request by request
VARIABLES
    lsInit,             \* the promise of BackgroundService.initialize
    lsContent,          \* the promise of initializeContentScript
    lsReq               \* the requests delivered: where each stands and how
                        \* often sendResponse was called for it

lsVars == <<lsInit, lsContent, lsReq>>

VARIABLES
    storedKey,          \* chrome.storage.sync: the value under geminiApiKey
    clientKey,          \* GeminiService.apiKey as handleSetApiKey leaves it
    keyPc,              \* where the setApiKey request in progress stands
    keyArg,             \* the apiKey of the setApiKey request in progress
    keyReply,           \* what handleSetApiKey returned
    keyBefore,          \* the key and model as the request found them
    keyCount            \* setApiKey requests received

keyVars == <<storedKey, clientKey, keyPc, keyArg, keyReply, keyBefore,
             keyCount>>

extraVars == <<extVars, msgVars, sweepVars, faultVars, selVars, ensVars, initVars, expVars, gateVars, menuVars, bootVars, optVars, lsVars, keyVars>>

vars == <<chunkVars, worldVars, cacheVars, coordVars, sumVars, extraVars>>

----------------------------------------------------------------------------
(* Strings.  A string is a sequence of tokens [c, n]: the character c      *)
(* repeated n times.  The characters the code treats specially (space,     *)
(* newline, the two brackets) always have n = 1; a run with n > 1 stands   *)
(* for n ordinary characters, which lets a transcript longer than          *)
(* MAX_CHUNK_LENGTH be written down.                                       *)

Tok(c) == [c |-> c, n |-> 1]

Run(c, n) == [c |-> c, n |-> n]

SP == Tok(" ")

NL == Tok("\n")

LB == Tok("[")

RB == Tok("]")

\* \s of the regular expressions, over the characters of the model
IsSpace(t) == t.c \in {" ", "\n"}

\* String.prototype.length
RECURSIVE TextLen(_)
TextLen(t) == IF t = <<>> THEN 0 ELSE Head(t).n + TextLen(Tail(t))

\* least index j >= from with t[j].c = c, or 0 when there is none
FirstIndex(t, from, c) ==
    LET S == {j \in from..Len(t) : t[j].c = c}
    IN  IF S = {} THEN 0 ELSE CHOOSE j \in S : \A k \in S : j <= k

\* Where a match of /\[.*?\]/ that starts at t[1] ends, or 0 when none starts
\* there: the lazy .*? stops at the first "]", and . matches no newline.
BracketMatchEnd(t) ==
    IF t[1].c # "[" THEN 0
    ELSE LET close == FirstIndex(t, 2, "]")
         IN  IF close = 0 THEN 0
             ELSE IF \E k \in 2..(close - 1) : t[k].c = "\n" THEN 0
             ELSE close

\* .replace(/\[.*?\]/g, '')
RECURSIVE StripBracketed(_)
StripBracketed(t) ==
    IF t = <<>> THEN <<>>
    ELSE LET j == BracketMatchEnd(t)
         IN  IF j > 0 THEN StripBracketed(SubSeq(t, j + 1, Len(t)))
             ELSE <<Head(t)>> \o StripBracketed(Tail(t))

RECURSIVE DropSpaces(_)
DropSpaces(t) ==
    IF t # <<>> /\ IsSpace(Head(t)) THEN DropSpaces(Tail(t)) ELSE t

\* .replace(/\s+/g, ' ')
RECURSIVE CollapseWhitespace(_)
CollapseWhitespace(t) ==
    IF t = <<>> THEN <<>>
    ELSE IF IsSpace(Head(t)) THEN <<SP>> \o CollapseWhitespace(DropSpaces(t))
    ELSE <<Head(t)>> \o CollapseWhitespace(Tail(t))

RECURSIVE DropTrailingSpaces(_)
DropTrailingSpaces(t) ==
    IF t # <<>> /\ IsSpace(t[Len(t)])
    THEN DropTrailingSpaces(SubSeq(t, 1, Len(t) - 1))
    ELSE t

\* .trim()
Trim(t) == DropTrailingSpaces(DropSpaces(t))

\* GeminiService.cleanTranscript
cleanTranscript(raw) ==
    Trim(CollapseWhitespace(StripBracketed(raw)))

\* text.split(' '): never empty; '' splits into ['']
RECURSIVE SplitOnSpace(_)
SplitOnSpace(t) ==
    LET i == FirstIndex(t, 1, " ")
    IN  IF i = 0 THEN <<t>>
        ELSE <<SubSeq(t, 1, i - 1)>> \o SplitOnSpace(SubSeq(t, i + 1, Len(t)))

\* array.join(sep) of an array of strings; [].join(sep) is ''
RECURSIVE JoinWith(_, _)
JoinWith(parts, sep) ==
    IF parts = <<>> THEN <<>>
    ELSE IF Len(parts) = 1 THEN parts[1]
    ELSE parts[1] \o sep \o JoinWith(Tail(parts), sep)

JoinSpace(parts) == JoinWith(parts, <<SP>>)

\* The test of the loop of splitIntoChunks: does the word start a new chunk?
ExceedsChunk(currentChunk, word, limit) ==
    TextLen(JoinSpace(currentChunk)) + TextLen(word) > limit

\* The for loop of splitIntoChunks, from word i on, and the push after it
RECURSIVE SplitLoop(_, _, _, _, _)
SplitLoop(words, i, acc, currentChunk, limit) ==
    IF i > Len(words)
    THEN IF Len(currentChunk) > 0
         THEN Append(acc, JoinSpace(currentChunk))
         ELSE acc
    ELSE IF ExceedsChunk(currentChunk, words[i], limit)
         THEN SplitLoop(words, i + 1, Append(acc, JoinSpace(currentChunk)),
                        <<words[i]>>, limit)
         ELSE SplitLoop(words, i + 1, acc, Append(currentChunk, words[i]), limit)

\* GeminiService.splitIntoChunks
splitIntoChunks(t, limit) == SplitLoop(SplitOnSpace(t), 1, <<>>, <<>>, limit)

----------------------------------------------------------------------------
(* The Result Cache: CacheService over chrome.storage.local.               *)

\* CacheService.CACHE_PREFIX, the prefix getSummary, setSummary and cleanup use
CACHE_PREFIX == "yt_summary_"

\* CacheService.SUMMARY_PREFIX, the prefix removeSummary and getAllSummaries use
SUMMARY_PREFIX == "summary_"

\* CacheService.CACHE_DURATION, 7 days in milliseconds
CACHE_DURATION == 7 * 24 * 60 * 60 * 1000

VideoIds == {"v1", "v2"}

\* the texts the API may answer a summarization with
Contents == {"c1", "c2"}

\* CacheService.PREFERENCES_KEY
PREFERENCES_KEY == "user_preferences"

\* the key of the user preferences entry, as a pair like the other keys
PreferencesKey == <<PREFERENCES_KEY, "">>

StorageKeys ==
    ({CACHE_PREFIX, SUMMARY_PREFIX} \X VideoIds) \cup {PreferencesKey}

\* data[key] when the key is not stored (undefined)
NoEntry == [present |-> FALSE]

\* null, as getSummary returns it and getCachedSummary passes it on
Null == [kind |-> "null"]

\* an absent (undefined) data field of an APIResponse
Undefined == [kind |-> "undefined"]

\* The Summary record built by GeminiService.summarize
MakeSummary(videoId, content, points, themes, t) ==
    [kind |-> "summary", id |-> <<videoId, t>>, videoId |-> videoId,
     content |-> content, keyPoints |-> points, topics |-> themes,
     timestamp |-> t, language |-> "en"]

\* const key = this.CACHE_PREFIX + videoId
CacheKey(videoId) == <<CACHE_PREFIX, videoId>>

\* the entry setSummary builds at time t
NewEntry(summary, t) ==
    [present |-> TRUE, data |-> summary, expiresAt |-> t + CACHE_DURATION]

\* the expiry test with the deadline itself counted as expired
IsExpiredAtDeadline(entry, t) == entry.expiresAt <= t

\* the expiry test of getSummary
IsExpired(entry, t) == entry.expiresAt < t

\* What getSummary finds for videoId in storage st at time t
CacheLookup(st, t, videoId) ==
    LET entry == st[CacheKey(videoId)]
    IN  IF ~entry.present THEN [outcome |-> "miss", data |-> Null]
        ELSE IF IsExpired(entry, t) THEN [outcome |-> "expired", data |-> Null]
        ELSE [outcome |-> "hit", data |-> entry.data]

\* chrome.storage.local.set({[key]: entry})
StoreSet(st, key, entry) == [st EXCEPT ![key] = entry]

\* chrome.storage.local.remove(key)
StoreRemove(st, key) == [st EXCEPT ![key] = NoEntry]

EmptyStore == [k \in StorageKeys |-> NoEntry]

----------------------------------------------------------------------------
(* What each specification holds the other specifications' variables at.   *)

NoCall == [name |-> "none"]

NoWrite == [done |-> FALSE]

NoRequest == [action |-> "none", videoId |-> "none"]

NoResponse == [sent |-> FALSE]

NoResult == [resolved |-> FALSE]

NoReturn == [set |-> FALSE]

ChunksIdle ==
    /\ text = <<>>
    /\ maxChunkLength = 0
    /\ cleanedTranscript = <<>>
    /\ splitResult = <<>>
    /\ stage = "off"

WorldIdle ==
    /\ now = 0
    /\ store = EmptyStore

CacheIdle ==
    /\ lastCall = NoCall
    /\ written = [v \in VideoIds |-> NoWrite]

CoordIdle ==
    /\ geminiApiKey = FALSE
    /\ isInitialized = FALSE
    /\ processingVideos = {}
    /\ pc = <<>>
    /\ req = <<>>
    /\ result = <<>>
    /\ pendingEntry = <<>>
    /\ resp = <<>>
    /\ calls = <<>>
    /\ lastReturned = NoReturn

SumIdle ==
    /\ apiKey = "none"
    /\ model = "none"
    /\ transcript = <<>>
    /\ chunks = <<>>
    /\ chunkIndex = 0
    /\ summaries = <<>>
    /\ callText = <<>>
    /\ isFinalSummary = FALSE
    /\ attempt = 0
    /\ returned = Null
    /\ finalSummary = <<>>
    /\ keyPoints = <<>>
    /\ topics = <<>>
    /\ sumPc = "off"
    /\ sumResult = NoResponse
    /\ clock = 0
    /\ callNo = 0
    /\ outcomes = <<>>
    /\ waits = <<>>
    /\ chunkReturns = <<>>
    /\ requests = <<>>
    /\ enrichment = <<>>

NoOutcome == [settled |-> FALSE]

ExtIdle ==
    /\ dom = <<>>
    /\ segments = <<>>
    /\ retrySegments = <<>>
    /\ extPc = "off"
    /\ extResult = NoOutcome

NoMessage == [pending |-> FALSE]

MsgIdle ==
    /\ msgPending = NoMessage
    /\ msgLog = <<>>
    /\ contentInitialized = FALSE

SweepIdle ==
    /\ swPc = "off"
    /\ swData = <<>>
    /\ swNow = 0
    /\ keysToRemove = {}

FaultIdle ==
    /\ fPc = "off"
    /\ fReq = NoRequest
    /\ fFaults = {}
    /\ fReturned = NoOutcome
    /\ fSummarized = NoResult
    /\ fResp = NoResponse

NoModel == "none"

SelIdle ==
    /\ listing = <<>>
    /\ selModel = NoModel
    /\ selPc = "off"
    /\ selResult = NoOutcome

EnsIdle ==
    /\ ensPc = "off"
    /\ ensPingLog = <<>>
    /\ ensInjections = 0
    /\ ensDelays = <<>>
    /\ ensAttempt = 0
    /\ ensResult = NoOutcome

InitIdle ==
    /\ initializationPromise = "null"
    /\ initializationAttempts = 0
    /\ scriptInitialized = FALSE
    /\ pageReady = FALSE
    /\ initWaiting = [waiting |-> FALSE]
    /\ initLog = <<>>

ExpIdle ==
    /\ expSummary = Null
    /\ expFormat = ""
    /\ expPc = "off"
    /\ expResp = NoResponse

GateIdle ==
    /\ gateAttempt = 0
    /\ readyObserved = FALSE
    /\ transcriptContainer = FALSE
    /\ menuButtons = 0
    /\ retryCount = 0
    /\ timerDelay = 0

MenuIdle ==
    /\ captions = FALSE
    /\ menuCount = 0
    /\ menuIndex = 0
    /\ foundTranscript = FALSE
    /\ menuScan = "none"
    /\ menuClicks = <<>>
    /\ menuPc = "off"
    /\ menuResult = NoOutcome

BootIdle ==
    /\ bootInitialized = FALSE
    /\ bootPromise = "none"
    /\ bodyRuns = 0
    /\ bodiesWaiting = 0
    /\ tabListeners = 0
    /\ navListeners = 0
    /\ timerStarts = {}
    /\ sweepTimers = 0
    /\ sweepFired = {}
    /\ bootClock = 0
    /\ bootMessages = 0

OptIdle ==
    /\ optTranscript = <<>>
    /\ optA = Null
    /\ optB = Null
    /\ runA = Null
    /\ runB = Null

LsIdle ==
    /\ lsInit = "none"
    /\ lsContent = "none"
    /\ lsReq = <<>>

KeyIdle ==
    /\ storedKey = "none"
    /\ clientKey = "none"
    /\ keyPc = "off"
    /\ keyArg = "none"
    /\ keyReply = NoResponse
    /\ keyBefore = <<>>
    /\ keyCount = 0

ExtraIdle == ExtIdle /\ MsgIdle /\ SweepIdle /\ FaultIdle /\ SelIdle /\ EnsIdle /\ InitIdle /\ ExpIdle /\ GateIdle /\ MenuIdle /\ BootIdle /\ OptIdle /\ LsIdle /\ KeyIdle

----------------------------------------------------------------------------
(* SpecChunks: cleanTranscript, then splitIntoChunks, on every transcript  *)
(* of at most MaxTranscriptLen characters and every limit up to MaxLimit.  *)

MaxTranscriptLen == 4

MaxLimit == 3

Alphabet == {Tok("a"), Tok("b"), SP, NL, LB, RB}

Transcripts == UNION {[1..n -> Alphabet] : n \in 0..MaxTranscriptLen}

InitChunks ==
    /\ text \in Transcripts
    /\ maxChunkLength \in 1..MaxLimit
    /\ cleanedTranscript = <<>>
    /\ splitResult = <<>>
    /\ stage = "raw"
    /\ WorldIdle /\ CacheIdle /\ CoordIdle /\ SumIdle /\ ExtraIdle

Clean ==
    /\ stage = "raw"
    /\ cleanedTranscript' = cleanTranscript(text)
    /\ stage' = "cleaned"
    /\ UNCHANGED <<text, maxChunkLength, splitResult>>
    /\ UNCHANGED <<worldVars, cacheVars, coordVars, sumVars, extraVars>>

Split ==
    /\ stage = "cleaned"
    /\ splitResult' = splitIntoChunks(cleanedTranscript, maxChunkLength)
    /\ stage' = "split"
    /\ UNCHANGED <<text, maxChunkLength, cleanedTranscript>>
    /\ UNCHANGED <<worldVars, cacheVars, coordVars, sumVars, extraVars>>

NextChunks == Clean \/ Split

SpecChunks == InitChunks /\ [][NextChunks]_vars

\* a chunk that is one word: it holds no space
IsSingleWord(chunk) == \A k \in 1..Len(chunk) : chunk[k].c # " "

\* C7: every chunk returned by splitIntoChunks has length at most the limit,
\* except a chunk that is a single word longer than the limit.
C7_ChunkWithinLimit ==
    stage = "split" =>
        \A i \in 1..Len(splitResult) :
            \/ TextLen(splitResult[i]) <= maxChunkLength
            \/ IsSingleWord(splitResult[i])

\* C8: joining the chunks with single spaces, in order, gives back the
\* normalized transcript.
C8_JoinReproduces ==
    stage = "split" => JoinSpace(splitResult) = cleanedTranscript

\* C39: splitIntoChunks returns no empty chunk, whatever the normalized
\* transcript and the limit, the empty transcript and a first word longer
\* than the limit included; summarize passes every chunk returned to
\* summarizeChunkWithRetry, so that no request carries an empty text.
C39_NoEmptyChunk ==
    stage = "split" =>
        \A i \in 1..Len(splitResult) : splitResult[i] # <<>>

\* the empty normalized transcript is returned as one empty chunk
EmptyTranscriptOneEmptyChunk ==
    (stage = "split" /\ cleanedTranscript = <<>>) => splitResult = <<<<>>>>

\* a first word longer than the limit is preceded by an empty chunk
LongFirstWordAfterEmptyChunk ==
    /\ stage = "split"
    /\ TextLen(SplitOnSpace(cleanedTranscript)[1]) > maxChunkLength
    /\ splitResult[1] = <<>>
    /\ Len(splitResult) > 1

\* only the first chunk is ever empty
OnlyFirstChunkEmpty ==
    stage = "split" =>
        \A i \in 2..Len(splitResult) : splitResult[i] # <<>>

----------------------------------------------------------------------------
(* SpecCache: getSummary and setSummary called one after another (each     *)
(* call runs to completion before the next starts), with time passing      *)
(* between calls.                                                          *)

MaxSkew == 1

\* the instants looked at: the first milliseconds, and those around the
\* expiry of an entry written in them
CacheInstants ==
    (0..MaxSkew) \cup {CACHE_DURATION + k : k \in (-1)..(MaxSkew + 1)}

InitCache ==
    /\ now = 0
    /\ store = EmptyStore
    /\ lastCall = NoCall
    /\ written = [v \in VideoIds |-> NoWrite]
    /\ ChunksIdle /\ CoordIdle /\ SumIdle /\ ExtraIdle

\* CacheService.getSummary(videoId), from call to return
GetSummaryCall(videoId) ==
    LET found == CacheLookup(store, now, videoId)
    IN  /\ store' = IF found.outcome = "expired"
                    THEN StoreRemove(store, CacheKey(videoId))
                    ELSE store
        /\ lastCall' = [name |-> "getSummary", videoId |-> videoId,
                        at |-> now, returned |-> found.data]
        /\ UNCHANGED <<now, written, chunkVars, coordVars, sumVars, extraVars>>

\* CacheService.setSummary(videoId, summary), from call to return
SetSummaryCall(videoId, summary) ==
    /\ store' = StoreSet(store, CacheKey(videoId), NewEntry(summary, now))
    /\ written' = [written EXCEPT ![videoId] =
                      [done |-> TRUE, at |-> now, summary |-> summary]]
    /\ lastCall' = [name |-> "setSummary", videoId |-> videoId,
                    at |-> now, returned |-> Undefined]
    /\ UNCHANGED <<now, chunkVars, coordVars, sumVars, extraVars>>

\* time passes between two calls
CacheTick ==
    /\ \E t \in CacheInstants : t > now /\ now' = t
    /\ UNCHANGED <<store, lastCall, written, chunkVars, coordVars, sumVars, extraVars>>

NextCache ==
    \/ \E v \in VideoIds : GetSummaryCall(v)
    \/ \E v \in VideoIds, c \in Contents :
           SetSummaryCall(v, MakeSummary(v, c, <<>>, <<>>, now))
    \/ CacheTick

SpecCache == InitCache /\ [][NextCache]_vars

\* the instant the entry of the latest setSummary(videoId) expires by the claim
Deadline(videoId) == written[videoId].at + CACHE_DURATION

\* the latest call was getSummary of a videoId that setSummary has written
CheckedAfterSet ==
    /\ lastCall.name = "getSummary"
    /\ written[lastCall.videoId].done

\* C6: after setSummary(videoId, s) at t0 and no later write, getSummary
\* returns s at every time strictly before t0 + CACHE_DURATION, and returns
\* null and deletes the entry at every time equal to or after it.
C6_ExpiredFromDeadline ==
    CheckedAfterSet =>
        LET v == lastCall.videoId
        IN  /\ lastCall.at < Deadline(v)
                 => lastCall.returned = written[v].summary
            /\ lastCall.at >= Deadline(v)
                 => /\ lastCall.returned = Null
                    /\ ~store[CacheKey(v)].present

\* C6 as amended: getSummary returns s at every time up to and including
\* t0 + CACHE_DURATION, and returns null and deletes the entry at every time
\* strictly after it.
C6_ExpiredAfterDeadline ==
    CheckedAfterSet =>
        LET v == lastCall.videoId
        IN  /\ lastCall.at <= Deadline(v)
                 => lastCall.returned = written[v].summary
            /\ lastCall.at > Deadline(v)
                 => /\ lastCall.returned = Null
                    /\ ~store[CacheKey(v)].present

\* a check made exactly at t0 + CACHE_DURATION that still returned the summary
C6_Witness ==
    /\ CheckedAfterSet
    /\ lastCall.at = Deadline(lastCall.videoId)
    /\ lastCall.returned = written[lastCall.videoId].summary

----------------------------------------------------------------------------
(* Spec: the Coordinator.  Messages arrive at the listener of the          *)
(* background context and their handlers interleave at every await: each   *)
(* action below is one run of a handler between two suspension points.     *)

MaxRequests == 2

Requests == 1..MaxRequests

\* the instants looked at: the start, and those around the expiry of an
\* entry written at the start
Instants == {0, CACHE_DURATION, CACHE_DURATION + 1}

ERR_NO_KEY == "Please set your Gemini API key in the extension settings"

ERR_ALREADY == "Video is already being processed"

\* an error GeminiService.summarize resolves with
ERR_SUMMARIZE == "Failed to generate any valid summaries"

\* APIResponse values; "" stands for an absent error field
Success(data) ==
    [sent |-> TRUE, success |-> TRUE, data |-> data, error |-> ""]

Failure(error) ==
    [sent |-> TRUE, success |-> FALSE, data |-> Undefined, error |-> error]

\* what chrome.storage.local may hold for a video when the background
\* context starts: nothing, or an entry written at time 0 by an earlier run
PersistedEntries(v) ==
    {NoEntry, NewEntry(MakeSummary(v, "c0", <<>>, <<>>, 0), 0)}

PersistedStores ==
    {st \in [StorageKeys -> UNION {PersistedEntries(v) : v \in VideoIds}] :
        \A k \in StorageKeys :
            /\ st[k] \in PersistedEntries(k[2])
            /\ k[1] # CACHE_PREFIX => st[k] = NoEntry}

Init ==
    /\ now = 0
    /\ store \in PersistedStores
    /\ geminiApiKey \in BOOLEAN
    /\ isInitialized = FALSE
    /\ processingVideos = {}
    /\ pc = [r \in Requests |-> "idle"]
    /\ req = [r \in Requests |-> NoRequest]
    /\ result = [r \in Requests |-> NoResult]
    /\ pendingEntry = [r \in Requests |-> NoEntry]
    /\ resp = [r \in Requests |-> NoResponse]
    /\ calls = [r \in Requests |-> <<>>]
    /\ lastReturned = NoReturn
    /\ ChunksIdle /\ CacheIdle /\ SumIdle /\ ExtraIdle

otherVars == <<chunkVars, cacheVars, sumVars, extraVars>>

\* a membership test that never finds the video
NeverProcessing(videoId) == FALSE

\* if (this.processingVideos.has(videoId))
AlreadyProcessing(videoId) == videoId \in processingVideos

\* a handler without the finally block
KeepMembership(processing, videoId) == processing

\* a finally block that empties the set
ClearProcessing(processing, videoId) == {}

\* finally { this.processingVideos.delete(videoId) }
FinallyDelete(processing, videoId) == processing \ {videoId}

\* the summarizeVideo success that a step answers, for lastReturned
Returned(videoId, data, expiresAt) ==
    [set |-> TRUE, videoId |-> videoId, data |-> data, expiresAt |-> expiresAt]

\* BackgroundService.initialize resolves: the listeners and the sweep timer
\* are registered and isInitialized is set
InitializeCompletes ==
    /\ ~isInitialized
    /\ isInitialized' = TRUE
    /\ lastReturned' = NoReturn
    /\ UNCHANGED <<now, store, geminiApiKey, processingVideos, pc, req, result,
                   pendingEntry, resp, calls, otherVars>>

\* The onMessage listener receives a message.  getCachedSummary goes to
\* handleCacheRequest at once (which calls cache.getSummary); every other
\* action waits for this.initialize().
Receive(r) ==
    /\ pc[r] = "idle"
    /\ \A q \in Requests : q < r => pc[q] # "idle"
    /\ \E action \in {"summarizeVideo", "getCachedSummary"}, v \in VideoIds :
        /\ req' = [req EXCEPT ![r] = [action |-> action, videoId |-> v]]
        /\ IF action = "getCachedSummary"
           THEN /\ pc' = [pc EXCEPT ![r] = "cacheGet"]
                /\ calls' = [calls EXCEPT ![r] = <<"local.get">>]
           ELSE /\ pc' = [pc EXCEPT ![r] = "waitInit"]
                /\ calls' = calls
    /\ lastReturned' = NoReturn
    /\ UNCHANGED <<now, store, geminiApiKey, isInitialized, processingVideos,
                   result, pendingEntry, resp, otherVars>>

\* this.initialize().then(...): handleMessage calls handleSummarizeVideo,
\* which awaits chrome.storage.sync.get('geminiApiKey')
Dispatch(r) ==
    /\ pc[r] = "waitInit"
    /\ isInitialized
    /\ pc' = [pc EXCEPT ![r] = "syncGet"]
    /\ calls' = [calls EXCEPT ![r] = Append(@, "sync.get")]
    /\ lastReturned' = NoReturn
    /\ UNCHANGED <<now, store, geminiApiKey, isInitialized, processingVideos,
                   req, result, pendingEntry, resp, otherVars>>

\* handleSummarizeVideo after sync.get resolved: the key test, the
\* processingVideos test, then the call of cache.getSummary
CheckGate(r) ==
    /\ pc[r] = "syncGet"
    /\ IF ~geminiApiKey
       THEN /\ resp' = [resp EXCEPT ![r] = Failure(ERR_NO_KEY)]
            /\ pc' = [pc EXCEPT ![r] = "done"]
            /\ calls' = calls
       ELSE IF AlreadyProcessing(req[r].videoId)
       THEN /\ resp' = [resp EXCEPT ![r] = Failure(ERR_ALREADY)]
            /\ pc' = [pc EXCEPT ![r] = "done"]
            /\ calls' = calls
       ELSE /\ resp' = resp
            /\ pc' = [pc EXCEPT ![r] = "cacheGet"]
            /\ calls' = [calls EXCEPT ![r] = Append(@, "local.get")]
    /\ lastReturned' = NoReturn
    /\ UNCHANGED <<now, store, geminiApiKey, isInitialized, processingVideos,
                   req, result, pendingEntry, otherVars>>

\* a handleSummarizeVideo that summarizes whatever cache.getSummary returned
AfterGetSummaryIgnoringHit(r, data, expiresAt) ==
    IF req[r].action = "getCachedSummary"
    THEN /\ resp' = [resp EXCEPT ![r] = Success(data)]
         /\ pc' = [pc EXCEPT ![r] = "done"]
         /\ lastReturned' = NoReturn
         /\ UNCHANGED <<processingVideos, calls>>
    ELSE /\ processingVideos' = processingVideos \cup {req[r].videoId}
         /\ pc' = [pc EXCEPT ![r] = "summarizing"]
         /\ calls' = [calls EXCEPT ![r] = Append(@, "summarize")]
         /\ lastReturned' = NoReturn
         /\ resp' = resp

\* What a handler does with the value cache.getSummary returned (data, or
\* Null): handleCacheRequest answers with it; handleSummarizeVideo answers a
\* summary at once and otherwise adds the video to processingVideos and
\* calls gemini.summarize.
AfterGetSummary(r, data, expiresAt) ==
    IF req[r].action = "getCachedSummary"
    THEN /\ resp' = [resp EXCEPT ![r] = Success(data)]
         /\ pc' = [pc EXCEPT ![r] = "done"]
         /\ lastReturned' = NoReturn
         /\ UNCHANGED <<processingVideos, calls>>
    ELSE IF data # Null
    THEN /\ resp' = [resp EXCEPT ![r] = Success(data)]
         /\ pc' = [pc EXCEPT ![r] = "done"]
         /\ lastReturned' = Returned(req[r].videoId, data, expiresAt)
         /\ UNCHANGED <<processingVideos, calls>>
    ELSE /\ processingVideos' = processingVideos \cup {req[r].videoId}
         /\ pc' = [pc EXCEPT ![r] = "summarizing"]
         /\ calls' = [calls EXCEPT ![r] = Append(@, "summarize")]
         /\ lastReturned' = NoReturn
         /\ resp' = resp

\* cache.getSummary after storage.local.get resolved: a missing entry is a
\* miss, an expired one is removed first (await this.remove(key)), any other
\* is returned
Lookup(r) ==
    /\ pc[r] = "cacheGet"
    /\ LET found == CacheLookup(store, now, req[r].videoId)
       IN  IF found.outcome = "expired"
           THEN /\ pc' = [pc EXCEPT ![r] = "cacheRemove"]
                /\ calls' = [calls EXCEPT ![r] = Append(@, "local.remove")]
                /\ lastReturned' = NoReturn
                /\ UNCHANGED <<processingVideos, resp>>
           ELSE AfterGetSummary(r, found.data,
                    IF found.outcome = "hit"
                    THEN store[CacheKey(req[r].videoId)].expiresAt ELSE 0)
    /\ UNCHANGED <<now, store, geminiApiKey, isInitialized, req, result,
                   pendingEntry, otherVars>>

\* storage.local.remove(key) of an expired entry takes effect and resolves;
\* getSummary returns null
ExpiryRemove(r) ==
    /\ pc[r] = "cacheRemove"
    /\ store' = StoreRemove(store, CacheKey(req[r].videoId))
    /\ AfterGetSummary(r, Null, 0)
    /\ UNCHANGED <<now, geminiApiKey, isInitialized, req, result,
                   pendingEntry, otherVars>>

\* a handleSummarizeVideo that stores whatever gemini.summarize resolved to
CacheAnyResult(res) == TRUE

\* if (result.success && result.data)
ShouldCache(res) == res.success /\ res.data # Undefined

\* gemini.summarize resolves.  On success handleSummarizeVideo calls
\* cache.setSummary, which builds the entry and awaits storage.local.set; on
\* failure the finally block runs and the result is returned as it is.
SummarizeResolves(r) ==
    /\ pc[r] = "summarizing"
    /\ \E outcome \in Contents \cup {"failure"} :
        LET res == IF outcome = "failure"
                   THEN Failure(ERR_SUMMARIZE)
                   ELSE Success(MakeSummary(req[r].videoId, outcome,
                                            <<>>, <<>>, now))
        IN  /\ result' = [result EXCEPT ![r] = res]
            /\ IF ShouldCache(res)
               THEN /\ pendingEntry' =
                           [pendingEntry EXCEPT ![r] = NewEntry(res.data, now)]
                    /\ pc' = [pc EXCEPT ![r] = "cacheSet"]
                    /\ calls' = [calls EXCEPT ![r] = Append(@, "local.set")]
                    /\ UNCHANGED <<processingVideos, resp>>
               ELSE /\ processingVideos' =
                           FinallyDelete(processingVideos, req[r].videoId)
                    /\ resp' = [resp EXCEPT ![r] = res]
                    /\ pc' = [pc EXCEPT ![r] = "done"]
                    /\ UNCHANGED <<pendingEntry, calls>>
    /\ lastReturned' = NoReturn
    /\ UNCHANGED <<now, store, geminiApiKey, isInitialized, req, otherVars>>

\* chrome.storage.local applies the set of setSummary
StoreApplies(r) ==
    /\ pc[r] = "cacheSet"
    /\ store' = StoreSet(store, CacheKey(req[r].videoId), pendingEntry[r])
    /\ pc' = [pc EXCEPT ![r] = "cacheSetAck"]
    /\ lastReturned' = NoReturn
    /\ UNCHANGED <<now, geminiApiKey, isInitialized, processingVideos, req,
                   result, pendingEntry, resp, calls, otherVars>>

\* storage.local.set resolved: setSummary returns, the finally block runs
\* and handleSummarizeVideo returns the result
SetResolves(r) ==
    /\ pc[r] = "cacheSetAck"
    /\ processingVideos' = FinallyDelete(processingVideos, req[r].videoId)
    /\ resp' = [resp EXCEPT ![r] = result[r]]
    /\ pc' = [pc EXCEPT ![r] = "done"]
    /\ lastReturned' =
           Returned(req[r].videoId, result[r].data, pendingEntry[r].expiresAt)
    /\ UNCHANGED <<now, store, geminiApiKey, isInitialized, req, result,
                   pendingEntry, calls, otherVars>>

\* handleSetApiKey: chrome.storage.sync.set({ geminiApiKey: apiKey }) lands.
\* The popup sends no empty key and nothing removes the key, so a stored key
\* stays stored; storing one again changes nothing here.
SetApiKey ==
    /\ ~geminiApiKey
    /\ geminiApiKey' = TRUE
    /\ lastReturned' = NoReturn
    /\ UNCHANGED <<now, store, isInitialized, processingVideos, pc, req,
                   result, pendingEntry, resp, calls, otherVars>>

\* time passes
Tick ==
    /\ \E t \in Instants : t > now /\ now' = t
    /\ lastReturned' = NoReturn
    /\ UNCHANGED <<store, geminiApiKey, isInitialized, processingVideos, pc,
                   req, result, pendingEntry, resp, calls, otherVars>>

Next ==
    \/ InitializeCompletes
    \/ SetApiKey
    \/ Tick
    \/ \E r \in Requests :
        \/ Receive(r)
        \/ Dispatch(r)
        \/ CheckGate(r)
        \/ Lookup(r)
        \/ ExpiryRemove(r)
        \/ SummarizeResolves(r)
        \/ StoreApplies(r)
        \/ SetResolves(r)

Spec == Init /\ [][Next]_vars

\* the requests whose gemini.summarize call for videoId has not resolved
InFlight(videoId) ==
    {r \in Requests : pc[r] = "summarizing" /\ req[r].videoId = videoId}

\* the requests between processingVideos.add and the finally block
Holding(videoId) ==
    {r \in Requests : /\ req[r].videoId = videoId
                      /\ pc[r] \in {"summarizing", "cacheSet", "cacheSetAck"}}

\* the entry of videoId is stored and its expiry time has not passed
FreshEntry(videoId) ==
    /\ store[CacheKey(videoId)].present
    /\ store[CacheKey(videoId)].expiresAt >= now

\* request r, a summarizeVideo, runs its step out of suspension point p
Leaves(r, p) ==
    /\ req[r].action = "summarizeVideo"
    /\ pc[r] = p
    /\ pc'[r] # p

\* C1: at most one gemini.summarize call is in flight for a videoId at any
\* time (a second summarizeVideo for it never starts a second API sequence).
C1_OneInFlightPerVideo ==
    \A v \in VideoIds : Cardinality(InFlight(v)) <= 1

\* C2: a videoId is in processingVideos only while a summarization of it is
\* under way; once none is, however the last one ended, it is not in the set.
C2_NoLeak ==
    \A v \in processingVideos : Holding(v) # {}

\* a summarization failed and its video is no longer in processingVideos
C2_Witness ==
    \E r \in Requests :
        /\ pc[r] = "done"
        /\ resp[r] = Failure(ERR_SUMMARIZE)
        /\ req[r].videoId \notin processingVideos

\* C3: right after summarizeVideo answered success with Summary s (and
\* before the entry's expiry time has passed), what getSummary finds for the
\* videoId, and so what getCachedSummary answers, is s.
C3_CachedAfterSuccess ==
    (lastReturned.set /\ now <= lastReturned.expiresAt) =>
        CacheLookup(store, now, lastReturned.videoId).data = lastReturned.data

\* a summarizeVideo whose lookup finds a present, unexpired entry answers
\* success with the cached Summary and does nothing else
HitAnswersFromCache(r) ==
    (Leaves(r, "cacheGet") /\ FreshEntry(req[r].videoId)) =>
        /\ resp'[r] = Success(store[CacheKey(req[r].videoId)].data)
        /\ pc'[r] = "done"
        /\ processingVideos' = processingVideos
        /\ store' = store
        /\ calls'[r] = <<"sync.get", "local.get">>

C5_AlreadyProcessingFailsFast ==
    [][\A r \in Requests :
        (/\ Leaves(r, "syncGet")
         /\ req[r].videoId \in processingVideos)
            => /\ resp'[r] = Failure(ERR_ALREADY)
               /\ pc'[r] = "done"
               /\ calls'[r] = <<"sync.get">>
               /\ processingVideos' = processingVideos
               /\ store' = store]_vars

\* a request was refused while another held its videoId in processingVideos
C5_Witness ==
    \E r \in Requests :
        /\ pc[r] = "done"
        /\ resp[r] = Failure(ERR_ALREADY)
        /\ Holding(req[r].videoId) # {}

\* the calls of request r that change chrome.storage.local
StorageWrites(r) ==
    {i \in 1..Len(calls[r]) : calls[r][i] \in {"local.set", "local.remove"}}

\* request r is a summarizeVideo request answered with the failure that
\* gemini.summarize resolved to
SummarizeFailed(r) ==
    /\ pc[r] = "done"
    /\ req[r].action = "summarizeVideo"
    /\ \E i \in 1..Len(calls[r]) : calls[r][i] = "summarize"
    /\ ~resp[r].success

\* C27 as stated: when gemini.summarize resolves with success false, the
\* request changes nothing in the persisted cache from its start to its end
\* (no set and no remove), and the failure is returned as it was resolved
C27_CacheSameAcrossRequest ==
    \A r \in Requests :
        SummarizeFailed(r) => /\ StorageWrites(r) = {}
                              /\ resp[r] = result[r]

\* C27, amended: when gemini.summarize resolves with success false, the step
\* that takes the resolution leaves the persisted cache as it is, issues no
\* storage call and answers the request with the failure unchanged; such a
\* request never called storage.local.set (the lookup before the
\* summarization may have removed the expired entry of the video); and an
\* entry appears in the persisted cache only as the set of a request whose
\* summarization succeeded with data
C27_NoCacheWriteOnFailure ==
    /\ [][\A r \in Requests :
            (pc[r] = "summarizing" /\ pc'[r] # "summarizing"
               /\ ~result'[r].success)
            => /\ store' = store
               /\ calls'[r] = calls[r]
               /\ pc'[r] = "done"
               /\ resp'[r] = result'[r]
               /\ resp'[r] = Failure(ERR_SUMMARIZE)]_vars
    /\ [](\A r \in Requests :
            SummarizeFailed(r)
            => /\ \A i \in 1..Len(calls[r]) : calls[r][i] # "local.set"
               /\ resp[r] = result[r])
    /\ [][\A k \in DOMAIN store :
            (store'[k] # store[k] /\ store'[k].present)
            => \E r \in Requests :
                   /\ pc[r] = "cacheSet"
                   /\ result[r].success
                   /\ k = CacheKey(req[r].videoId)
                   /\ store'[k] = pendingEntry[r]]_vars

\* a summarizeVideo request whose lookup removed the expired entry of its
\* video and whose summarization then failed
C27_Witness ==
    \E r \in Requests :
        /\ SummarizeFailed(r)
        /\ calls[r] = <<"sync.get", "local.get", "local.remove", "summarize">>
        /\ ~store[CacheKey(req[r].videoId)].present

\* C34: a summarizeVideo request is answered 'already processing' only
\* when its own videoId is in processingVideos; a videoId leaves the set
\* only in the step in which a request for that same videoId is answered
\* after its summarization; so requests for other videos neither block a
\* request nor remove its videoId.
C34_GatePerVideo ==
    /\ [][\A r \in Requests :
            (pc[r] = "syncGet" /\ pc'[r] = "done"
               /\ resp'[r] = Failure(ERR_ALREADY))
            => req[r].videoId \in processingVideos]_vars
    /\ [][\A v \in VideoIds :
            (v \in processingVideos /\ v \notin processingVideos')
            => \E r \in Requests :
                   /\ req[r].videoId = v
                   /\ pc[r] \in {"summarizing", "cacheSetAck"}
                   /\ pc'[r] = "done"]_vars

\* summarizations of two videos were in flight together; the one of v2 has
\* been answered and v1 is still in the set, its summarization in flight
C34_Witness ==
    /\ processingVideos = {"v1"}
    /\ InFlight("v1") # {}
    /\ \E r \in Requests :
          /\ req[r].videoId = "v2"
          /\ pc[r] = "done"
          /\ \E i \in 1..Len(calls[r]) : calls[r][i] = "summarize"
          /\ \E q \in Requests :
                /\ req[q].videoId = "v1"
                /\ pc[q] = "summarizing"
                /\ calls[q] = <<"sync.get", "local.get", "summarize">>

\* C35: an entry that is not expired is never deleted: the remove issued by
\* a getSummary that read an expired entry under the key takes out nothing
\* that a setSummary wrote after that read.
C35_FreshEntrySurvives ==
    [][\A k \in DOMAIN store :
          (store[k].present /\ ~store'[k].present)
             => IsExpired(store[k], now)]_vars

\* a getSummary read the expired entry of a video, a setSummary wrote a
\* fresh one for the video and returned, and the remove of the getSummary
\* is still to come
StaleRemovePending ==
    \E r \in Requests, q \in Requests :
        /\ pc[r] = "cacheRemove"
        /\ pc[q] = "done"
        /\ req[q].videoId = req[r].videoId
        /\ resp[q].success
        /\ pendingEntry[q].present
        /\ store[CacheKey(req[r].videoId)] = pendingEntry[q]
        /\ ~IsExpired(store[CacheKey(req[r].videoId)], now)

----------------------------------------------------------------------------
(* SpecSummarize: one call of GeminiService.summarize, from the tests at   *)
(* its start to the value it resolves to, against an API that may answer   *)
(* every request in any of the ways of FetchOutcomes.                      *)

\* GeminiService.MAX_RETRIES
MAX_RETRIES == 3

\* GeminiService.INITIAL_RETRY_DELAY, in milliseconds
INITIAL_RETRY_DELAY == 1000

\* GeminiService.MAX_CHUNK_LENGTH
MAX_CHUNK_LENGTH == 30000

\* the transcripts given to summarize have up to MaxChunks lines
MaxChunks == 3

WordNames == <<"A", "B", "C", "D", "E">>

SummaryNames == <<"S1", "S2", "S3", "S4", "S5">>

\* line i of a transcript as the Extractor formats it, "[t] word", with a
\* word of MAX_CHUNK_LENGTH characters: each line becomes a chunk of its own
TranscriptLine(i) ==
    <<LB, Tok("t"), RB, SP, Run(WordNames[i], MAX_CHUNK_LENGTH)>>

RECURSIVE TranscriptOf(_)
TranscriptOf(n) ==
    IF n = 0 THEN <<>>
    ELSE IF n = 1 THEN TranscriptLine(1)
    ELSE TranscriptOf(n - 1) \o <<NL>> \o TranscriptLine(n)

SummarizeInputs == {TranscriptOf(n) : n \in 0..MaxChunks}

\* How the API may answer a generation request: a body with text, a 2xx body
\* without the text field, HTTP 429, HTTP 401 or 403, another non-2xx
\* status, or no answer at all (fetch rejects).
FetchOutcomes == {"ok", "malformed", "rate429", "auth", "http", "network"}

\* the text the API answers the request for chunk i with, named after the
\* chunk so that it can be told apart downstream
ChunkSummaryText(i) == <<Tok(SummaryNames[i])>>

\* the text the API answers the final re-summarization with
FinalText == <<Tok("F")>>

ERR_KEY_NOT_SET == "Gemini API key not set"

ERR_NO_SUMMARIES == "Failed to generate any valid summaries"

ERR_NO_FINAL == "Failed to generate final summary"

\* a summarize whose error leaves it as a rejection
RethrowSummarize(error) == [settled |-> TRUE, ok |-> FALSE, error |-> error]

\* The catch block of summarize: whatever was thrown inside its try, which
\* spans the whole body, becomes a failure result.
CatchSummarize(error) == Failure(error)

\* a delay that does not grow with the attempt
FixedDelay(n) == INITIAL_RETRY_DELAY

\* const delay = this.INITIAL_RETRY_DELAY * Math.pow(2, attempt - 1)
RetryDelay(n) == INITIAL_RETRY_DELAY * (2 ^ (n - 1))

\* what summarizeChunkWithRetry resolves to when it got a text: the text is
\* never empty, an answer without text being thrown on
Text(t) == [kind |-> "text", text |-> t]

\* a loop that keeps the summaries latest first
UnshiftSummary(list, summary) ==
    IF summary # Null THEN <<summary.text>> \o list ELSE list

\* How the API may answer a keyPoints or topics request, as far as
\* extractKeyPoints and extractTopics tell the answers apart: a body with
\* text, a 2xx body without text, a non-2xx status, or none (fetch rejects).
EnrichmentOutcomes == {"ok", "malformed", "http", "network"}

\* what extractKeyPoints and extractTopics make of an answer: the list of
\* its text, or the empty list of the catch block and of a missing text
\* a parse that filters every line away
AlwaysEmpty(outcome, list) == <<>>

\* The list extractKeyPoints and extractTopics resolve to: the non-empty
\* lines of the text, or [] from the catch block and for a missing text.
EnrichmentList(outcome, list) == IF outcome = "ok" THEN list ELSE <<>>

EnrichmentClass(outcome) == IF outcome = "ok" THEN "answered" ELSE "failed"

\* a loop that throws the summaries collected so far away at a failed chunk
RestartOnNull(list, summary) ==
    IF summary # Null THEN Append(list, summary.text) ELSE <<>>

\* if (summary) { summaries.push(summary) }
PushSummary(list, summary) ==
    IF summary # Null THEN Append(list, summary.text) ELSE list

\* summaries.join('\n\n')
JoinSummaries(list) == JoinWith(list, <<NL, NL>>)

\* the log entry of a request: the call and attempt it belongs to, when it
\* was sent, the chunk the loop stood at and how many chunk calls had
\* resolved by then
Request(kind, body) ==
    [call |-> callNo, kind |-> kind, text |-> body, attempt |-> attempt,
     at |-> clock, chunk |-> chunkIndex, resolved |-> Len(chunkReturns)]

\* a loop that goes from any chunk straight to the last of the n
JumpToLast(i, n) == n

\* for (const chunk of chunks): the chunk after the i-th of n
NextChunkIndex(i, n) == i + 1

coordOther == <<chunkVars, worldVars, cacheVars, coordVars, extraVars>>

InitSummarize ==
    /\ apiKey \in {"none", "key"}
    /\ model \in {"none", "model"}
    /\ apiKey = "none" => model = "none"
    /\ transcript \in SummarizeInputs
    /\ chunks = <<>>
    /\ chunkIndex = 0
    /\ summaries = <<>>
    /\ callText = <<>>
    /\ isFinalSummary = FALSE
    /\ attempt = 0
    /\ returned = Null
    /\ finalSummary = <<>>
    /\ keyPoints = <<>>
    /\ topics = <<>>
    /\ enrichment = <<>>
    /\ sumPc = "start"
    /\ sumResult = NoResponse
    /\ clock = 0
    /\ callNo = 0
    /\ outcomes = <<>>
    /\ waits = <<>>
    /\ chunkReturns = <<>>
    /\ requests = <<>>
    /\ ChunksIdle /\ WorldIdle /\ CacheIdle /\ CoordIdle /\ ExtraIdle

\* a call summarizeChunkWithRetry(body, 1, final) begins
BeginCall(body, final) ==
    /\ callText' = body
    /\ isFinalSummary' = final
    /\ attempt' = 1
    /\ callNo' = callNo + 1
    /\ outcomes' = <<>>
    /\ waits' = <<>>
    /\ sumPc' = "attempt"

\* a retry test that lets the attempt after MAX_RETRIES through
RetryOnceMore ==
    IF attempt <= MAX_RETRIES
    THEN /\ waits' = Append(waits, RetryDelay(attempt))
         /\ sumPc' = "backoff"
         /\ returned' = returned
    ELSE /\ returned' = Null
         /\ sumPc' = "returned"
         /\ waits' = waits

\* The catch block of summarizeChunkWithRetry, and the 429 branch before it:
\* below MAX_RETRIES attempts the delay is set and waited for, at
\* MAX_RETRIES the call resolves to null.
RetryOrGiveUp ==
    IF attempt < MAX_RETRIES
    THEN /\ waits' = Append(waits, RetryDelay(attempt))
         /\ sumPc' = "backoff"
         /\ returned' = returned
    ELSE /\ returned' = Null
         /\ sumPc' = "returned"
         /\ waits' = waits

\* summarize up to its first await: the key test, cleanTranscript,
\* splitIntoChunks and the call for the first chunk
SummarizeStart ==
    /\ sumPc = "start"
    /\ IF apiKey = "none"
       THEN /\ sumResult' = CatchSummarize(ERR_KEY_NOT_SET)
            /\ sumPc' = "done"
            /\ UNCHANGED <<chunks, chunkIndex, callText, isFinalSummary,
                           attempt, callNo, outcomes, waits>>
       ELSE /\ chunks' = splitIntoChunks(cleanTranscript(transcript),
                                         MAX_CHUNK_LENGTH)
            /\ chunkIndex' = 1
            /\ BeginCall(chunks'[1], FALSE)
            /\ sumResult' = sumResult
    /\ UNCHANGED <<enrichment, apiKey, model, transcript, summaries, returned,
                   finalSummary, keyPoints, topics, clock, chunkReturns,
                   requests, coordOther>>

\* One attempt of summarizeChunkWithRetry up to its await: the apiEndpoint
\* getter throws when no model is selected (caught by the catch block),
\* otherwise the request is sent.
Attempt ==
    /\ sumPc = "attempt"
    /\ IF model = "none"
       THEN /\ RetryOrGiveUp
            /\ requests' = requests
       ELSE /\ requests' = Append(requests,
                Request(IF isFinalSummary THEN "final" ELSE "chunk", callText))
            /\ sumPc' = "fetching"
            /\ UNCHANGED <<waits, returned>>
    /\ UNCHANGED <<enrichment, apiKey, model, transcript, chunks, chunkIndex,
                   summaries, callText, isFinalSummary, attempt,
                   finalSummary, keyPoints, topics, sumResult, clock,
                   callNo, outcomes, chunkReturns, coordOther>>

\* The request is answered.  A body with text is returned; a 429 below
\* MAX_RETRIES waits and retries; every other answer throws into the catch
\* block, which waits and retries below MAX_RETRIES and returns null at it.
FetchResolves ==
    /\ sumPc = "fetching"
    /\ \E outcome \in FetchOutcomes :
        /\ outcomes' = Append(outcomes, outcome)
        /\ IF outcome = "ok"
           THEN /\ returned' = Text(IF isFinalSummary THEN FinalText
                                    ELSE ChunkSummaryText(chunkIndex))
                /\ sumPc' = "returned"
                /\ waits' = waits
           ELSE RetryOrGiveUp
    /\ UNCHANGED <<enrichment, apiKey, model, transcript, chunks, chunkIndex,
                   summaries, callText, isFinalSummary, attempt,
                   finalSummary, keyPoints, topics, sumResult, clock,
                   callNo, chunkReturns, requests, coordOther>>

\* the setTimeout of the delay fires: summarizeChunkWithRetry calls itself
\* with attempt + 1
BackoffElapses ==
    /\ sumPc = "backoff"
    /\ clock' = clock + waits[Len(waits)]
    /\ attempt' = attempt + 1
    /\ sumPc' = "attempt"
    /\ UNCHANGED <<enrichment, apiKey, model, transcript, chunks, chunkIndex,
                   summaries, callText, isFinalSummary, returned,
                   finalSummary, keyPoints, topics, sumResult, callNo,
                   outcomes, waits, chunkReturns, requests, coordOther>>

\* the call for a chunk resolved: its summary is pushed if there is one, and
\* the loop goes on to the next chunk
ChunkCallReturns ==
    /\ sumPc = "returned"
    /\ ~isFinalSummary
    /\ chunkReturns' = Append(chunkReturns, returned)
    /\ summaries' = PushSummary(summaries, returned)
    /\ IF chunkIndex < Len(chunks)
       THEN /\ chunkIndex' = NextChunkIndex(chunkIndex, Len(chunks))
            /\ BeginCall(chunks[chunkIndex'], FALSE)
       ELSE /\ sumPc' = "loopDone"
            /\ UNCHANGED <<chunkIndex, callText, isFinalSummary, attempt,
                           callNo, outcomes, waits>>
    /\ UNCHANGED <<enrichment, apiKey, model, transcript, chunks, returned,
                   finalSummary, keyPoints, topics, sumResult, clock,
                   requests, coordOther>>

\* after the loop: no summary fails the call, one summary is the final
\* summary, several are joined and summarized once more
LoopEnds ==
    /\ sumPc = "loopDone"
    /\ IF Len(summaries) = 0
       THEN /\ sumResult' = CatchSummarize(ERR_NO_SUMMARIES)
            /\ sumPc' = "done"
            /\ UNCHANGED <<finalSummary, callText, isFinalSummary, attempt,
                           callNo, outcomes, waits>>
       ELSE IF Len(summaries) = 1
       THEN /\ finalSummary' = summaries[1]
            /\ sumPc' = "haveFinal"
            /\ UNCHANGED <<sumResult, callText, isFinalSummary, attempt,
                           callNo, outcomes, waits>>
       ELSE /\ BeginCall(JoinSummaries(summaries), TRUE)
            /\ UNCHANGED <<sumResult, finalSummary>>
    /\ UNCHANGED <<enrichment, apiKey, model, transcript, chunks, chunkIndex,
                   summaries, returned, keyPoints, topics, clock,
                   chunkReturns, requests, coordOther>>

\* the final re-summarization resolved: null fails the call
FinalCallReturns ==
    /\ sumPc = "returned"
    /\ isFinalSummary
    /\ IF returned = Null
       THEN /\ sumResult' = CatchSummarize(ERR_NO_FINAL)
            /\ sumPc' = "done"
            /\ finalSummary' = finalSummary
       ELSE /\ finalSummary' = returned.text
            /\ sumPc' = "haveFinal"
            /\ sumResult' = sumResult
    /\ UNCHANGED <<enrichment, apiKey, model, transcript, chunks, chunkIndex,
                   summaries, callText, isFinalSummary, attempt, returned,
                   keyPoints, topics, clock, callNo, outcomes, waits,
                   chunkReturns, requests, coordOther>>

\* extractKeyPoints(finalSummary) up to its await
ExtractKeyPoints ==
    /\ sumPc = "haveFinal"
    /\ requests' = Append(requests, Request("keyPoints", finalSummary))
    /\ sumPc' = "keyPointsFetch"
    /\ UNCHANGED <<enrichment, apiKey, model, transcript, chunks, chunkIndex,
                   summaries, callText, isFinalSummary, attempt, returned,
                   finalSummary, keyPoints, topics, sumResult, clock,
                   callNo, outcomes, waits, chunkReturns, coordOther>>

\* The keyPoints request is answered: a body with text gives the list of its
\* lines, anything else the empty list.  extractTopics(finalSummary) is
\* called next, up to its await.
KeyPointsResolve ==
    /\ sumPc = "keyPointsFetch"
    /\ \E outcome \in EnrichmentOutcomes :
        /\ keyPoints' = EnrichmentList(outcome, <<"k1", "k2">>)
        /\ enrichment' = Append(enrichment, EnrichmentClass(outcome))
    /\ requests' = Append(requests, Request("topics", finalSummary))
    /\ sumPc' = "topicsFetch"
    /\ UNCHANGED <<apiKey, model, transcript, chunks, chunkIndex,
                   summaries, callText, isFinalSummary, attempt, returned,
                   finalSummary, topics, sumResult, clock, callNo,
                   outcomes, waits, chunkReturns, coordOther>>

\* The topics request is answered, in the same way; the Summary is built
\* and summarize resolves to success.
TopicsResolve ==
    /\ sumPc = "topicsFetch"
    /\ \E outcome \in EnrichmentOutcomes :
        /\ topics' = EnrichmentList(outcome, <<"t1", "t2">>)
        /\ enrichment' = Append(enrichment, EnrichmentClass(outcome))
        /\ sumResult' = Success(MakeSummary("v1", finalSummary, keyPoints,
                                            topics', clock))
    /\ sumPc' = "done"
    /\ UNCHANGED <<apiKey, model, transcript, chunks, chunkIndex,
                   summaries, callText, isFinalSummary, attempt, returned,
                   finalSummary, keyPoints, clock, callNo, outcomes, waits,
                   chunkReturns, requests, coordOther>>

NextSummarize ==
    \/ SummarizeStart
    \/ Attempt
    \/ FetchResolves
    \/ BackoffElapses
    \/ ChunkCallReturns
    \/ LoopEnds
    \/ FinalCallReturns
    \/ ExtractKeyPoints
    \/ KeyPointsResolve
    \/ TopicsResolve

SpecSummarize == InitSummarize /\ [][NextSummarize]_vars

----------------------------------------------------------------------------
(* Claims about GeminiService, checked under SpecSummarize.                *)

\* the requests sent by the latest call of summarizeChunkWithRetry
RequestsOfCall ==
    SelectSeq(requests,
              LAMBDA q : q.call = callNo /\ q.kind \in {"chunk", "final"})

RateLimitedThrice == outcomes = <<"rate429", "rate429", "rate429">>

\* C9: a generation call whose three attempts were each answered with 429
\* waited INITIAL_RETRY_DELAY after the first and twice that after the
\* second, sent its three requests that far apart, has no fourth attempt
\* under way, and resolved to null.
C9_ThreeRateLimitsGiveNull ==
    RateLimitedThrice =>
        /\ waits = <<INITIAL_RETRY_DELAY, 2 * INITIAL_RETRY_DELAY>>
        /\ waits[1] < waits[2]
        /\ Len(RequestsOfCall) = 3
        /\ \A i \in 1..3 : RequestsOfCall[i].attempt = i
        /\ \A i \in 1..2 :
            RequestsOfCall[i + 1].at = RequestsOfCall[i].at + waits[i]
        /\ sumPc \notin {"attempt", "fetching", "backoff"}
        /\ returned = Null

C9_Witness ==
    /\ RateLimitedThrice
    /\ ~isFinalSummary
    /\ sumPc = "returned"
    /\ returned = Null
    /\ Len(requests) > 3

\* the summaries of the chunks whose call resolved to a text, in chunk order
RECURSIVE SucceededSummaries(_)
SucceededSummaries(rets) ==
    IF rets = <<>> THEN <<>>
    ELSE IF Head(rets) = Null THEN SucceededSummaries(Tail(rets))
    ELSE <<Head(rets).text>> \o SucceededSummaries(Tail(rets))

\* C10: the final re-summarization is requested once every chunk has been
\* tried, on the summaries of the chunks that succeeded (each the API's
\* answer for that chunk) joined in chunk order; and a call of summarize
\* that has a final summary issues the keyPoints and the topics request on
\* it and resolves to a Summary with it as content.
C10_FinalPassFromSucceededChunks ==
    /\ \A i \in DOMAIN chunkReturns :
        chunkReturns[i] \in {Null, Text(ChunkSummaryText(i))}
    /\ \A i \in DOMAIN requests :
        requests[i].kind = "final" =>
            /\ Len(chunkReturns) = Len(chunks)
            /\ requests[i].text =
                   JoinSummaries(SucceededSummaries(chunkReturns))
    /\ (sumPc = "done" /\ sumResult.success) =>
        /\ \E i \in DOMAIN requests :
            requests[i].kind = "keyPoints" /\ requests[i].text = finalSummary
        /\ \E i \in DOMAIN requests :
            requests[i].kind = "topics" /\ requests[i].text = finalSummary
        /\ sumResult.data.content = finalSummary
        /\ finalSummary = IF Len(SucceededSummaries(chunkReturns)) = 1
                          THEN SucceededSummaries(chunkReturns)[1]
                          ELSE FinalText

\* three chunks, the second of which exhausted its retries: the final pass
\* was requested on the summaries of chunks 1 and 3 and summarize succeeded
C10_Witness ==
    /\ Len(chunks) = 3
    /\ chunkReturns = <<Text(ChunkSummaryText(1)), Null,
                        Text(ChunkSummaryText(3))>>
    /\ \E i \in DOMAIN requests :
        /\ requests[i].kind = "final"
        /\ requests[i].text =
               ChunkSummaryText(1) \o <<NL, NL>> \o ChunkSummaryText(3)
    /\ sumPc = "done"
    /\ sumResult.success
    /\ \E i \in DOMAIN requests : requests[i].kind = "topics"

SummarizeErrors == {ERR_KEY_NOT_SET, ERR_NO_SUMMARIES, ERR_NO_FINAL}

\* C12: summarize never rejects.  Whatever the key, the model and the
\* answers of the API, what it has settled to is a result object with a
\* boolean success: a Summary as data on success, one of its error messages
\* on failure; a missing key, a missing model and every failed request end
\* in such an object.
C12_SummarizeNeverThrows ==
    /\ sumPc = "done" =>
        /\ DOMAIN sumResult = {"sent", "success", "data", "error"}
        /\ sumResult.success \in BOOLEAN
        /\ IF sumResult.success
           THEN sumResult.data.kind = "summary"
           ELSE sumResult.error \in SummarizeErrors
    /\ sumPc # "done" => sumResult = NoResponse
    /\ (sumPc = "done" /\ apiKey = "none") =>
        sumResult = Failure(ERR_KEY_NOT_SET)
    /\ (sumPc = "done" /\ model = "none") => ~sumResult.success

\* a key but no model: every attempt threw 'Model not initialized' before
\* sending, and summarize resolved to a failure
C12_Witness ==
    /\ sumPc = "done"
    /\ apiKey = "key"
    /\ model = "none"
    /\ requests = <<>>
    /\ sumResult = Failure(ERR_NO_SUMMARIES)

\* the latest call has stopped attempting
CallStopped == sumPc \notin {"attempt", "fetching", "backoff"}

\* C16: a 2xx answer without the text field ends the call at once: it is
\* the last answer the call receives, no wait follows it and no further
\* request is sent for that text.
C16_MalformedNotRetried ==
    \A i \in DOMAIN outcomes :
        outcomes[i] = "malformed" =>
            /\ i = Len(outcomes)
            /\ CallStopped
            /\ Len(waits) < i
            /\ Len(RequestsOfCall) = i

\* C17: an answer of HTTP 401 or 403 is not retried (it is the last answer
\* of its call, without a wait after it, and when it answers the first
\* attempt exactly one request was sent for the text), while a 429 or
\* another non-2xx answer below MAX_RETRIES attempts is followed by the
\* backoff wait.
C17_AuthNotRetried ==
    /\ \A i \in DOMAIN outcomes :
        outcomes[i] = "auth" =>
            /\ i = Len(outcomes)
            /\ CallStopped
            /\ Len(waits) < i
            /\ (i = 1 => Len(RequestsOfCall) = 1)
    /\ \A i \in DOMAIN outcomes :
        (outcomes[i] \in {"rate429", "http"} /\ i < MAX_RETRIES) =>
            Len(waits) >= i /\ waits[i] = RetryDelay(i)

\* the generation requests (chunk and final), in the order sent
GenerationRequests ==
    SelectSeq(requests, LAMBDA q : q.kind \in {"chunk", "final"})

\* C20: chunks are summarized one after another.  Every request for a
\* chunk is for the chunk right after those whose calls have resolved, so
\* none is sent while an earlier chunk's attempts and waits are still
\* under way; the final request is sent when all chunks have resolved; and
\* the requests leave in the order of their calls, never earlier than the
\* one before.
C20_ChunksSequential ==
    /\ \A i \in DOMAIN requests :
        /\ requests[i].kind = "chunk" =>
            /\ requests[i].chunk = requests[i].resolved + 1
            /\ requests[i].call = requests[i].chunk
            /\ requests[i].text = chunks[requests[i].chunk]
        /\ requests[i].kind = "final" =>
            requests[i].resolved = Len(chunks)
    /\ \A i, j \in DOMAIN GenerationRequests :
        i < j => /\ GenerationRequests[i].call <= GenerationRequests[j].call
                 /\ GenerationRequests[i].at <= GenerationRequests[j].at
    /\ sumPc \in {"attempt", "fetching", "backoff", "returned"} =>
        Len(chunkReturns) = IF isFinalSummary THEN Len(chunks)
                            ELSE chunkIndex - 1

\* chunk 1 was retried after a wait and failed for good, chunk 2 was then
\* requested, and the final pass followed the last chunk
C20_Witness ==
    /\ Len(chunks) = 3
    /\ \E i, j, k \in DOMAIN requests :
        /\ i < j /\ j < k
        /\ requests[i].chunk = 1 /\ requests[i].attempt = MAX_RETRIES
        /\ requests[j].chunk = 2 /\ requests[j].kind = "chunk"
        /\ requests[j].at > 0
        /\ requests[k].kind = "final"

\* C23: the waits of a generation call before its retries are 2000 ms,
\* 4000 ms and 8000 ms, in that order; a call that gave up waited all
\* three.
C23_DocumentedBackoff ==
    /\ \A i \in DOMAIN waits : waits[i] = 2000 * (2 ^ (i - 1))
    /\ (sumPc = "returned" /\ returned = Null) =>
            waits = <<2000, 4000, 8000>>

\* C24: the first request for a chunk after the first is sent at least
\* 1500 ms after the last request for the chunk before it, which was
\* answered before that chunk resolved.
C24_DelayBetweenChunks ==
    \A i \in DOMAIN GenerationRequests :
        (/\ i > 1
         /\ GenerationRequests[i].kind = "chunk"
         /\ GenerationRequests[i].chunk > GenerationRequests[i - 1].chunk) =>
            GenerationRequests[i].at >= GenerationRequests[i - 1].at + 1500

\* the calls for chunks that resolved to a summary
ChunksSummarized == {i \in DOMAIN chunkReturns : chunkReturns[i] # Null}

\* C25: summarize succeeds exactly when some chunk produced a summary and,
\* if several did, the final pass produced text as well.  A chunk that
\* resolved to null leaves the call going on to the next chunk, and when
\* every chunk resolved to null the call fails.
C25_SuccessIffSummaries ==
    /\ sumPc = "done" =>
        /\ sumResult.success <=>
            /\ ChunksSummarized # {}
            /\ Cardinality(ChunksSummarized) > 1 =>
                (isFinalSummary /\ returned # Null)
        /\ sumResult.success =>
            /\ Len(chunkReturns) = Len(chunks)
            /\ sumResult.data.content =
                IF Cardinality(ChunksSummarized) = 1
                THEN chunkReturns[CHOOSE i \in ChunksSummarized : TRUE].text
                ELSE returned.text
        /\ (/\ chunks # <<>>
            /\ Len(chunkReturns) = Len(chunks)
            /\ ChunksSummarized = {}) =>
                sumResult = Failure(ERR_NO_SUMMARIES)
    /\ \A i \in DOMAIN chunkReturns :
        (chunkReturns[i] = Null /\ i < Len(chunks)) =>
            (sumPc # "done" /\ chunkIndex > i)
            \/ Len(chunkReturns) = Len(chunks)

\* chunk 1 ran out of attempts and was skipped, chunks 2 and 3 were
\* summarized, and the call succeeded with the text of the final pass
C25_Witness ==
    /\ sumPc = "done"
    /\ sumResult.success
    /\ Len(chunkReturns) = 3
    /\ chunkReturns[1] = Null
    /\ ChunksSummarized = {2, 3}
    /\ sumResult.data.content = FinalText

\* the step that takes summarize off its start: SummarizeStart, whose only
\* condition is that summarize was called
LeavesStart == sumPc = "start" /\ sumPc' \in {"attempt", "done"}

\* the steps after the start
AfterStart ==
    \/ Attempt
    \/ FetchResolves
    \/ BackoffElapses
    \/ ChunkCallReturns
    \/ LoopEnds
    \/ FinalCallReturns
    \/ ExtractKeyPoints
    \/ KeyPointsResolve
    \/ TopicsResolve

\* SpecSummarize with no step of a call postponed for ever: the code runs
\* on, every timer fires and every request is answered or rejected.
SpecSummarizeFair ==
    SpecSummarize /\ WF_sumPc(LeavesStart) /\ WF_sumPc(AfterStart)

\* the attempts of the latest call that failed, by their place in outcomes
FailedAttempts == {k \in DOMAIN outcomes : outcomes[k] # "ok"}

\* C26: whatever the failures, a call of summarizeChunkWithRetry sends at
\* most MAX_RETRIES requests, waits INITIAL_RETRY_DELAY * 2^(k-1) after
\* its failed attempt k < MAX_RETRIES and resolves after the last; and
\* summarize on a transcript of n chunks sends at most 3n + 3 + 2 requests
\* and comes to its end.
C26_BoundedRetriesTerminate ==
    /\ [](/\ Len(RequestsOfCall) <= MAX_RETRIES
          /\ attempt <= MAX_RETRIES
          /\ \A k \in FailedAttempts :
                IF k < MAX_RETRIES
                THEN /\ Len(waits) >= k
                     /\ waits[k] = INITIAL_RETRY_DELAY * (2 ^ (k - 1))
                ELSE /\ sumPc \notin {"attempt", "fetching", "backoff"}
                     /\ Len(waits) = MAX_RETRIES - 1
          /\ Len(requests) <= 3 * Len(chunks) + 3 + 2)
    /\ <>(sumPc = "done")

\* three chunks each took three failed attempts of mixed kinds, and the
\* call of summarize came to its end
C26_Witness ==
    /\ sumPc = "done"
    /\ Len(chunks) = 3
    /\ Len(requests) = 9
    /\ \E i, j, k \in DOMAIN requests :
        /\ requests[i].attempt = MAX_RETRIES /\ requests[i].chunk = 1
        /\ requests[j].attempt = MAX_RETRIES /\ requests[j].chunk = 2
        /\ requests[k].attempt = MAX_RETRIES /\ requests[k].chunk = 3

\* the requests for key points and for topics sent by summarize
EnrichmentRequests ==
    SelectSeq(requests, LAMBDA q : q.kind \in {"keyPoints", "topics"})

\* C28: once the final summary is there, summarize asks for the key points
\* and then for the topics, each once and each on the final summary,
\* whatever the answer to the other; and it succeeds with the final summary,
\* the key points and the topics, either list being empty when its request
\* failed.
C28_EnrichmentBestEffort ==
    /\ sumPc = "topicsFetch" =>
        /\ Len(EnrichmentRequests) = 2
        /\ EnrichmentRequests[2].kind = "topics"
        /\ EnrichmentRequests[2].text = finalSummary
    /\ (sumPc = "done" /\ Len(EnrichmentRequests) > 0) =>
        /\ Len(EnrichmentRequests) = 2
        /\ EnrichmentRequests[1].kind = "keyPoints"
        /\ EnrichmentRequests[1].text = finalSummary
        /\ EnrichmentRequests[2].kind = "topics"
        /\ sumResult.success
        /\ sumResult.data.content = finalSummary
        /\ sumResult.data.keyPoints = keyPoints
        /\ sumResult.data.topics = topics
        /\ Len(enrichment) = 2
        /\ keyPoints = <<>> <=> enrichment[1] = "failed"
        /\ topics = <<>> <=> enrichment[2] = "failed"
    /\ (sumPc = "done" /\ sumResult.success) => Len(EnrichmentRequests) = 2

\* the key points request failed and the topics request was answered: the
\* call succeeded with no key points and with the topics
C28_Witness ==
    /\ sumPc = "done"
    /\ sumResult.success
    /\ enrichment = <<"failed", "answered">>
    /\ sumResult.data.keyPoints = <<>>
    /\ sumResult.data.topics = <<"t1", "t2">>

----------------------------------------------------------------------------
(* SpecExtract: extractTranscript of the content script from its segment   *)
(* query on, over a page whose transcript panel may fill in while the      *)
(* function waits.                                                         *)

\* the panel holds up to MaxSegments segment elements
MaxSegments == 2

\* A segment element, by what the selectors read from it: the trimmed text
\* of its timestamp element ('' when there is none) and its text ('' when
\* neither the text element nor the segment itself gives any).
SegmentElements == [timestamp : {"", "t"}, text : {"", "a"}]

RECURSIVE SeqsUpTo(_, _)
SeqsUpTo(S, n) ==
    IF n = 0 THEN {<<>>}
    ELSE LET shorter == SeqsUpTo(S, n - 1)
         IN  shorter \cup {Append(q, x) : q \in shorter, x \in S}

SegmentLists == SeqsUpTo(SegmentElements, MaxSegments)

ERR_NO_SEGMENTS ==
    "No transcript segments found. The transcript might not be available for this video."

ERR_NO_TEXT ==
    "Failed to extract transcript text. The transcript might be in an unsupported format."

\* what an async function settled to
Resolved(value) == [settled |-> TRUE, ok |-> TRUE, value |-> value]

Rejected(error) == [settled |-> TRUE, ok |-> FALSE, error |-> error]

\* return `[${timestamp}] ${text}`
FormatSegment(seg) ==
    <<LB>> \o (IF seg.timestamp = "" THEN <<>> ELSE <<Tok(seg.timestamp)>>)
           \o <<RB, SP, Tok(seg.text)>>

\* segments.map(...).filter(Boolean): a segment without text maps to null
RECURSIVE TranscriptSegments(_)
TranscriptSegments(segs) ==
    IF segs = <<>> THEN <<>>
    ELSE IF Head(segs).text = "" THEN TranscriptSegments(Tail(segs))
    ELSE <<FormatSegment(Head(segs))>> \o TranscriptSegments(Tail(segs))

\* transcriptSegments.join('\n')
JoinLines(lines) == JoinWith(lines, <<NL>>)

extOther ==
    <<chunkVars, worldVars, cacheVars, coordVars, sumVars, msgVars,
      sweepVars, faultVars, selVars, ensVars, initVars, expVars, gateVars,
      menuVars, bootVars, optVars, lsVars, keyVars>>

InitExtract ==
    /\ dom \in SegmentLists
    /\ segments = <<>>
    /\ retrySegments = <<>>
    /\ extPc = "query"
    /\ extResult = NoOutcome
    \* ext: the other components idle
    /\ ChunksIdle /\ WorldIdle /\ CacheIdle /\ CoordIdle /\ SumIdle
    /\ KeyIdle
    /\ LsIdle
    /\ OptIdle
    /\ BootIdle
    /\ MenuIdle
    /\ GateIdle
    /\ ExpIdle
    /\ InitIdle
    /\ EnsIdle
    /\ SelIdle
    /\ FaultIdle
    /\ SweepIdle
    /\ MsgIdle

\* the page adds or replaces segment elements while extractTranscript has
\* not yet mapped them
DomChanges ==
    /\ extPc \in {"query", "waiting"}
    /\ \E d \in SegmentLists : d # dom /\ dom' = d
    /\ UNCHANGED <<segments, retrySegments, extPc, extResult, extOther>>

\* const segments = findSegments(transcriptContainer); none found starts
\* the 2500 ms wait
FindSegments ==
    /\ extPc = "query"
    /\ segments' = dom
    /\ extPc' = IF Len(dom) = 0 THEN "waiting" ELSE "map"
    /\ UNCHANGED <<dom, retrySegments, extResult, extOther>>

\* after the wait: const retrySegments = findSegments(transcriptContainer);
\* none again throws
RetryFind ==
    /\ extPc = "waiting"
    /\ retrySegments' = dom
    /\ IF Len(dom) = 0
       THEN /\ extResult' = Rejected(ERR_NO_SEGMENTS)
            /\ extPc' = "done"
       ELSE /\ extResult' = extResult
            /\ extPc' = "map"
    /\ UNCHANGED <<dom, segments, extOther>>

\* const transcriptSegments = segments.map(...).filter(Boolean); none
\* throws, otherwise the lines are joined and returned
MapSegments ==
    /\ extPc = "map"
    /\ extResult' = IF Len(TranscriptSegments(segments)) = 0
                    THEN Rejected(ERR_NO_TEXT)
                    ELSE Resolved(JoinLines(TranscriptSegments(segments)))
    /\ extPc' = "done"
    /\ UNCHANGED <<dom, segments, retrySegments, extOther>>

NextExtract ==
    \/ DomChanges
    \/ FindSegments
    \/ RetryFind
    \/ MapSegments

SpecExtract == InitExtract /\ [][NextExtract]_vars

\* C11: when the first query found no segment and the retry found segments
\* that all carry text, extractTranscript returns the transcript of their
\* formatted lines; and it fails with the no-segments error only when the
\* retry found none either.
C11_RetrySegmentsUsed ==
    /\ (/\ extPc = "done"
        /\ segments = <<>>
        /\ retrySegments # <<>>
        /\ \A i \in DOMAIN retrySegments : retrySegments[i].text # "")
           => /\ extResult = Resolved(JoinLines(TranscriptSegments(retrySegments)))
              /\ Len(TranscriptSegments(retrySegments)) = Len(retrySegments)
    /\ (extPc = "done" /\ extResult = Rejected(ERR_NO_SEGMENTS))
           => retrySegments = <<>>

----------------------------------------------------------------------------
(* SpecMessages: the chrome.runtime.onMessage listeners of the background  *)
(* service and of the content script, by the value each passes to          *)
(* sendResponse.                                                           *)

\* up to MaxMessages messages are answered
MaxMessages == 2

CoordinatorActions ==
    {"ping", "getCachedSummary", "verifyContentScript", "setApiKey",
     "summarizeVideo", "getVideoMetadata", "exportSummary", "unknown"}

ExtractorActions == {"ping", "getVideoMetadata", "getTranscript", "unknown"}

\* A value passed to sendResponse: its JavaScript type, its own keys when it
\* is an object, and its success field ("none" when it has no such field).
\* { success: true, data } and { success: true }
SuccessObject(withData) ==
    [type |-> "object",
     keys |-> IF withData THEN {"success", "data"} ELSE {"success"},
     success |-> "true"]

\* { success: false, error }
FailureObject ==
    [type |-> "object", keys |-> {"success", "error"}, success |-> "false"]

\* sendResponse('pong')
PongString == [type |-> "string", keys |-> {}, success |-> "none"]

\* sendResponse({ pong: true, initialized: isInitialized })
PongObject ==
    [type |-> "object", keys |-> {"pong", "initialized"}, success |-> "none"]

Message(context, action) ==
    [pending |-> TRUE, context |-> context, action |-> action]

Answered(context, action, response) ==
    [context |-> context, action |-> action, response |-> response]

\* What the background answers a message other than ping with: the result
\* of handleCacheRequest or of handleMessage, whose handlers return a
\* result object on success and on failure alike.
CoordinatorResponse(action, ok) ==
    IF action = "unknown" THEN FailureObject
    ELSE IF ~ok THEN FailureObject
    ELSE SuccessObject(action # "setApiKey")

\* What handleMessage of the content script answers with
ExtractorResponse(action, ok) ==
    IF action = "unknown" THEN FailureObject
    ELSE IF ~ok THEN FailureObject
    ELSE SuccessObject(TRUE)

msgOther ==
    <<chunkVars, worldVars, cacheVars, coordVars, sumVars, extVars,
      sweepVars, faultVars, selVars, ensVars, initVars, expVars, gateVars,
      menuVars, bootVars, optVars, lsVars, keyVars>>

InitMessages ==
    /\ msgPending = NoMessage
    /\ msgLog = <<>>
    /\ contentInitialized \in BOOLEAN
    \* msg: the other components idle
    /\ ChunksIdle /\ WorldIdle /\ CacheIdle /\ CoordIdle /\ SumIdle
    /\ KeyIdle
    /\ LsIdle
    /\ OptIdle
    /\ BootIdle
    /\ MenuIdle
    /\ GateIdle
    /\ ExpIdle
    /\ InitIdle
    /\ EnsIdle
    /\ SelIdle
    /\ FaultIdle
    /\ SweepIdle
    /\ ExtIdle

\* The background listener takes a message: a ping is answered within the
\* listener, any other action is answered later.
CoordinatorListener ==
    /\ msgPending = NoMessage
    /\ Len(msgLog) < MaxMessages
    /\ \E action \in CoordinatorActions :
        IF action = "ping"
        THEN /\ msgLog' = Append(msgLog,
                              Answered("coordinator", action, PongString))
             /\ msgPending' = msgPending
        ELSE /\ msgPending' = Message("coordinator", action)
             /\ msgLog' = msgLog
    /\ UNCHANGED <<contentInitialized, msgOther>>

\* handleCacheRequest, or handleMessage after initialize, settles and the
\* background calls sendResponse
CoordinatorResponds ==
    /\ msgPending # NoMessage
    /\ msgPending.context = "coordinator"
    /\ \E ok \in BOOLEAN :
        msgLog' = Append(msgLog,
            Answered("coordinator", msgPending.action,
                     CoordinatorResponse(msgPending.action, ok)))
    /\ msgPending' = NoMessage
    /\ UNCHANGED <<contentInitialized, msgOther>>

\* The content script listener takes a message: a ping is answered within
\* the listener, any other action is answered later.
ExtractorListener ==
    /\ msgPending = NoMessage
    /\ Len(msgLog) < MaxMessages
    /\ \E action \in ExtractorActions :
        IF action = "ping"
        THEN /\ msgLog' = Append(msgLog,
                              Answered("extractor", action, PongObject))
             /\ msgPending' = msgPending
        ELSE /\ msgPending' = Message("extractor", action)
             /\ msgLog' = msgLog
    /\ UNCHANGED <<contentInitialized, msgOther>>

\* The content script answers: when it is not initialized it initializes
\* first, and a failed initialization is answered with a failure; otherwise
\* handleMessage answers.
ExtractorResponds ==
    /\ msgPending # NoMessage
    /\ msgPending.context = "extractor"
    /\ \E initOk \in BOOLEAN, ok \in BOOLEAN :
        IF ~contentInitialized /\ ~initOk
        THEN /\ msgLog' = Append(msgLog,
                 Answered("extractor", msgPending.action, FailureObject))
             /\ contentInitialized' = contentInitialized
        ELSE /\ msgLog' = Append(msgLog,
                 Answered("extractor", msgPending.action,
                          ExtractorResponse(msgPending.action, ok)))
             /\ contentInitialized' = TRUE
    /\ msgPending' = NoMessage
    /\ UNCHANGED msgOther

NextMessages ==
    \/ CoordinatorListener
    \/ CoordinatorResponds
    \/ ExtractorListener
    \/ ExtractorResponds

SpecMessages == InitMessages /\ [][NextMessages]_vars

\* an object with a boolean success and no key besides success, data, error
HasResultShape(response) ==
    /\ response.type = "object"
    /\ "success" \in response.keys
    /\ response.keys \subseteq {"success", "data", "error"}
    /\ response.success \in {"true", "false"}

\* C13: every value passed to sendResponse, by either listener and for
\* every action, ping and unknown actions included, is an object of the
\* shape {success, data?, error?} with a boolean success.
C13_EveryResponseHasSuccess ==
    \A i \in DOMAIN msgLog : HasResultShape(msgLog[i].response)

----------------------------------------------------------------------------
(* SpecSweep: CacheService.cleanup on a store that holds summaries written *)
(* by setSummary and preferences written by setUserPreferences, with       *)
(* nothing else writing the store while it runs.                           *)

\* entries of the store were written at the instants 0..MaxWriteAt
MaxWriteAt == 1

SweepWriteInstants == 0..MaxWriteAt

\* cleanup runs when the entries written at 0 reach or have passed their
\* expiry
SweepInstants == {CACHE_DURATION + d : d \in 0..(MaxWriteAt + 1)}

\* CacheService.set: the entry of setUserPreferences(preferences, ttl)
PreferencesEntry(t, ttl) ==
    [present |-> TRUE, data |-> [kind |-> "preferences"],
     expiresAt |-> t + ttl]

\* what a key may hold when cleanup starts
SweepEntries(k) ==
    IF k[1] = CACHE_PREFIX
    THEN {NoEntry} \cup
         {NewEntry(MakeSummary(k[2], "c0", <<>>, <<>>, t), t) :
              t \in SweepWriteInstants}
    ELSE IF k = PreferencesKey
    THEN {NoEntry} \cup
         {PreferencesEntry(t, CACHE_DURATION) : t \in SweepWriteInstants}
    ELSE {NoEntry}

SweepStores ==
    {st \in [StorageKeys -> UNION {SweepEntries(k) : k \in StorageKeys}] :
        \A k \in StorageKeys : st[k] \in SweepEntries(k)}

\* key.startsWith(this.CACHE_PREFIX) && value.expiresAt < now
SweepSelects(key, value, t) == key[1] = CACHE_PREFIX /\ value.expiresAt < t

\* the forEach over Object.entries(data) that fills keysToRemove
ExpiredKeys(data, t) ==
    {k \in DOMAIN data : data[k].present /\ SweepSelects(k, data[k], t)}

\* chrome.storage.local.remove(keysToRemove)
StoreRemoveAll(st, keys) ==
    [k \in DOMAIN st |-> IF k \in keys THEN NoEntry ELSE st[k]]

sweepOther ==
    <<chunkVars, cacheVars, coordVars, sumVars, extVars, msgVars,
      faultVars, selVars, ensVars, initVars, expVars, gateVars, menuVars,
      bootVars, optVars, lsVars, keyVars>>

InitSweep ==
    /\ now \in SweepInstants
    /\ store \in SweepStores
    /\ swPc = "start"
    /\ swData = <<>>
    /\ swNow = 0
    /\ keysToRemove = {}
    \* sweep: the other components idle
    /\ ChunksIdle /\ CacheIdle /\ CoordIdle /\ SumIdle
    /\ KeyIdle
    /\ LsIdle
    /\ OptIdle
    /\ BootIdle
    /\ MenuIdle
    /\ GateIdle
    /\ ExpIdle
    /\ InitIdle
    /\ EnsIdle
    /\ SelIdle
    /\ FaultIdle
    /\ ExtIdle
    /\ MsgIdle

\* cleanup after storage.local.get(null) resolved: the expired keys of the
\* cache's prefix are collected; with none, cleanup returns
SweepReads ==
    /\ swPc = "start"
    /\ swData' = store
    /\ swNow' = now
    /\ keysToRemove' = ExpiredKeys(store, now)
    /\ swPc' = IF ExpiredKeys(store, now) = {} THEN "done" ELSE "removing"
    /\ UNCHANGED <<now, store, sweepOther>>

\* storage.local.remove(keysToRemove) lands and cleanup returns
SweepRemoves ==
    /\ swPc = "removing"
    /\ store' = StoreRemoveAll(store, keysToRemove)
    /\ swPc' = "done"
    /\ UNCHANGED <<now, swData, swNow, keysToRemove, sweepOther>>

\* time passes while cleanup awaits the store
SweepTick ==
    /\ swPc # "done"
    /\ now + 1 \in SweepInstants
    /\ now' = now + 1
    /\ UNCHANGED <<store, sweepVars, sweepOther>>

NextSweep ==
    \/ SweepReads
    \/ SweepRemoves
    \/ SweepTick

SpecSweep == InitSweep /\ [][NextSweep]_vars

\* C15: when cleanup has completed, no entry whose expiresAt had passed
\* when cleanup looked remains in the store, whatever its key, and every
\* entry that had not expired is still there.
C15_SweepRemovesAllExpired ==
    swPc = "done" =>
        \A k \in StorageKeys :
            /\ (swData[k].present /\ swData[k].expiresAt < swNow)
                   => ~store[k].present
            /\ (swData[k].present /\ ~(swData[k].expiresAt < swNow))
                   => store[k] = swData[k]

----------------------------------------------------------------------------
(* SpecFaults: a getCachedSummary or summarizeVideo request, or a cleanup, *)
(* served while any operation of chrome.storage.local may reject.  A       *)
(* Gemini API key is stored; chrome.storage.sync is not part of the cache. *)

FaultActions == {"getCachedSummary", "summarizeVideo", "cleanup"}

\* when the request is served: with the persisted entries fresh, or expired
FaultInstants == {0, CACHE_DURATION + 1}

\* the message of a rejected storage operation
ERR_STORAGE == "storage operation failed"

\* a CacheService method that lets the rejection through
CachePropagate(fallback) ==
    [settled |-> TRUE, ok |-> FALSE, error |-> ERR_STORAGE]

\* The catch blocks of getSummary, setSummary and cleanup: the error is
\* logged and the method resolves, getSummary to null, the others to
\* undefined.
CacheCatch(fallback) == Resolved(fallback)

faultOther ==
    <<chunkVars, cacheVars, coordVars, sumVars, extVars, msgVars,
      sweepVars, selVars, ensVars, initVars, expVars, gateVars, menuVars,
      bootVars, optVars, lsVars, keyVars>>

InitFaults ==
    /\ now \in FaultInstants
    /\ store \in PersistedStores
    /\ fPc = "idle"
    /\ fReq = NoRequest
    /\ fFaults = {}
    /\ fReturned = NoOutcome
    /\ fSummarized = NoResult
    /\ fResp = NoResponse
    \* fault: the other components idle
    /\ ChunksIdle /\ CacheIdle /\ CoordIdle /\ SumIdle
    /\ KeyIdle
    /\ LsIdle
    /\ OptIdle
    /\ BootIdle
    /\ MenuIdle
    /\ GateIdle
    /\ ExpIdle
    /\ InitIdle
    /\ EnsIdle
    /\ SelIdle
    /\ ExtIdle
    /\ MsgIdle
    /\ SweepIdle

\* a request arrives (with the key stored and the video not being processed,
\* summarizeVideo goes on to cache.getSummary), or the cleanup timer fires
FaultRequest ==
    /\ fPc = "idle"
    /\ \E action \in FaultActions, v \in VideoIds :
        /\ fReq' = [action |-> action, videoId |-> v]
        /\ fPc' = IF action = "cleanup" THEN "cleanup" ELSE "get"
    /\ UNCHANGED <<now, store, fFaults, fReturned, fSummarized, fResp,
                   faultOther>>

\* CacheService.getSummary: initialize swallows a rejected get('test'); a
\* rejected get(key) goes to the catch block; an expired entry is removed
\* by remove, which swallows a rejection of its own
FaultGetSummary ==
    /\ fPc = "get"
    /\ \E initFault \in BOOLEAN, getFault \in BOOLEAN, removeFault \in BOOLEAN :
        LET found == CacheLookup(store, now, fReq.videoId)
            removes == ~getFault /\ found.outcome = "expired"
        IN  /\ fReturned' = IF getFault THEN CacheCatch(Null)
                            ELSE Resolved(found.data)
            /\ store' = IF removes /\ ~removeFault
                        THEN StoreRemove(store, CacheKey(fReq.videoId))
                        ELSE store
            /\ fFaults' = fFaults
                   \cup (IF initFault THEN {"init"} ELSE {})
                   \cup (IF getFault THEN {"get"} ELSE {})
                   \cup (IF removes /\ removeFault THEN {"remove"} ELSE {})
    /\ fPc' = "afterGet"
    /\ UNCHANGED <<now, fReq, fSummarized, fResp, faultOther>>

\* the handler after cache.getSummary settled: a rejection reaches the
\* handler's catch block; handleCacheRequest answers the value;
\* handleSummarizeVideo answers a summary and otherwise summarizes
FaultAfterGet ==
    /\ fPc = "afterGet"
    /\ IF ~fReturned.ok
       THEN fResp' = Failure(ERR_STORAGE) /\ fPc' = "done"
       ELSE IF fReq.action = "getCachedSummary" \/ fReturned.value # Null
       THEN fResp' = Success(fReturned.value) /\ fPc' = "done"
       ELSE fResp' = fResp /\ fPc' = "summarizing"
    /\ UNCHANGED <<now, store, fReq, fFaults, fReturned, fSummarized,
                   faultOther>>

\* gemini.summarize resolves: a success is cached next, a failure is
\* answered
FaultSummarizeResolves ==
    /\ fPc = "summarizing"
    /\ \E outcome \in Contents \cup {"failure"} :
        IF outcome = "failure"
        THEN /\ fSummarized' = Failure(ERR_SUMMARIZE)
             /\ fResp' = Failure(ERR_SUMMARIZE)
             /\ fPc' = "done"
        ELSE /\ fSummarized' = Success(MakeSummary(fReq.videoId, outcome,
                                                   <<>>, <<>>, now))
             /\ fResp' = fResp
             /\ fPc' = "set"
    /\ UNCHANGED <<now, store, fReq, fFaults, fReturned, faultOther>>

\* CacheService.setSummary: a rejected set goes to the catch block
FaultSetSummary ==
    /\ fPc = "set"
    /\ \E initFault \in BOOLEAN, setFault \in BOOLEAN :
        /\ fReturned' = IF setFault THEN CacheCatch(Undefined)
                        ELSE Resolved(Undefined)
        /\ store' = IF setFault THEN store
                    ELSE StoreSet(store, CacheKey(fReq.videoId),
                                  NewEntry(fSummarized.data, now))
        /\ fFaults' = fFaults
               \cup (IF initFault THEN {"init"} ELSE {})
               \cup (IF setFault THEN {"set"} ELSE {})
    /\ fPc' = "afterSet"
    /\ UNCHANGED <<now, fReq, fSummarized, fResp, faultOther>>

\* handleSummarizeVideo after cache.setSummary settled: return result, or
\* the catch block when it rejected
FaultAfterSet ==
    /\ fPc = "afterSet"
    /\ fResp' = IF fReturned.ok THEN fSummarized ELSE Failure(ERR_STORAGE)
    /\ fPc' = "done"
    /\ UNCHANGED <<now, store, fReq, fFaults, fReturned, fSummarized,
                   faultOther>>

\* CacheService.cleanup: a rejected get(null) or remove(keys) goes to the
\* catch block
FaultCleanup ==
    /\ fPc = "cleanup"
    /\ \E initFault \in BOOLEAN, getFault \in BOOLEAN, removeFault \in BOOLEAN :
        LET keys == ExpiredKeys(store, now)
            removes == ~getFault /\ keys # {}
        IN  /\ fReturned' = IF getFault \/ (removes /\ removeFault)
                            THEN CacheCatch(Undefined)
                            ELSE Resolved(Undefined)
            /\ store' = IF removes /\ ~removeFault
                        THEN StoreRemoveAll(store, keys)
                        ELSE store
            /\ fFaults' = fFaults
                   \cup (IF initFault THEN {"init"} ELSE {})
                   \cup (IF getFault THEN {"get"} ELSE {})
                   \cup (IF removes /\ removeFault THEN {"remove"} ELSE {})
    /\ fPc' = "done"
    /\ UNCHANGED <<now, fReq, fSummarized, fResp, faultOther>>

NextFaults ==
    \/ FaultRequest
    \/ FaultGetSummary
    \/ FaultAfterGet
    \/ FaultSummarizeResolves
    \/ FaultSetSummary
    \/ FaultAfterSet
    \/ FaultCleanup

SpecFaults == InitFaults /\ [][NextFaults]_vars

\* C14: no CacheService method rejects, whichever storage operations did:
\* getSummary resolves to null on a read error, setSummary and cleanup
\* resolve to undefined.  A getCachedSummary whose read failed is answered
\* success with null; a summarizeVideo whose read failed summarizes and
\* answers what summarize resolved to, as on a miss; one whose write failed
\* answers the success all the same.  A request fails only when summarize
\* failed.
C14_StorageErrorsNeverPropagate ==
    /\ fReturned.settled => fReturned.ok
    /\ (fPc = "afterGet" /\ "get" \in fFaults) => fReturned = Resolved(Null)
    /\ (fPc = "done" /\ fReq.action = "cleanup") =>
        fReturned = Resolved(Undefined)
    /\ (fPc = "done" /\ fReq.action = "getCachedSummary") =>
        /\ fResp.success
        /\ "get" \in fFaults => fResp = Success(Null)
    /\ (fPc = "done" /\ fReq.action = "summarizeVideo") =>
        /\ "get" \in fFaults => (fSummarized # NoResult /\ fResp = fSummarized)
        /\ "set" \in fFaults => (fResp = fSummarized /\ fResp.success)
        /\ ~fResp.success => fResp = Failure(ERR_SUMMARIZE)

\* a summarizeVideo whose cache read and cache write both rejected was
\* answered with the fresh summary
C14_Witness ==
    /\ fPc = "done"
    /\ fReq.action = "summarizeVideo"
    /\ {"get", "set"} \subseteq fFaults
    /\ fResp.success
    /\ ~store[CacheKey(fReq.videoId)].present

----------------------------------------------------------------------------
(* SpecSelect: GeminiService.initialize, which lists the models and        *)
(* selects one, on every listing of up to MaxListing models.               *)

\* the listing holds up to MaxListing models
MaxListing == 2

\* GeminiService.PREFERRED_MODELS
PREFERRED_MODELS ==
    <<"gemini-2.0-flash-lite", "gemini-1.5-pro", "gemini-1.5-flash",
      "gemini-pro">>

\* names the API may list
ListedNames ==
    {"models/gemini-2.0-flash-lite", "models/gemini-1.5-pro",
     "models/gemini-1.5-pro-latest", "models/gemini-1.5-flash",
     "models/gemini-pro", "models/embedding-001"}

\* m.name.includes(preferredModel), for the names of ListedNames
NameIncludes(name, preferred) ==
    \/ name = "models/" \o preferred
    \/ name = "models/" \o preferred \o "-latest"

ListedModels ==
    [name : ListedNames,
     supportedGenerationMethods : {{"generateContent"}, {"embedContent"}}]

Listings == SeqsUpTo(ListedModels, MaxListing)

\* how the listing request may end: a listing, HTTP 429, another non-2xx
\* status, or a rejected fetch
ListingOutcomes == {"ok", "rate429", "http", "network"}

ERR_NO_MODEL ==
    "No suitable Gemini model found. Please ensure you have access to Gemini API models."

ERR_LISTING == "Failed to list models"

\* a test that lets every model pass
AnyMethods(m) == TRUE

\* m.supportedGenerationMethods.includes('generateContent')
HasGenerateContent(m) == "generateContent" \in m.supportedGenerationMethods

\* models.find(test): the index of the first model passing, 0 when none
FindFirst(models, Test(_)) ==
    LET S == {i \in DOMAIN models : Test(models[i])}
    IN  IF S = {} THEN 0 ELSE CHOOSE i \in S : \A j \in S : i <= j

\* the find of the preference loop, for one preferred name
FindPreferred(models, preferred) ==
    LET Test(m) == NameIncludes(m.name, preferred) /\ HasGenerateContent(m)
    IN  FindFirst(models, Test)

\* the preference loop from the p-th preferred name on, then the fallback
\* find: the index of the model selected, 0 when none is
RECURSIVE SelectFrom(_, _)
SelectFrom(models, p) ==
    IF p > Len(PREFERRED_MODELS)
    THEN FindFirst(models, HasGenerateContent)
    ELSE IF FindPreferred(models, PREFERRED_MODELS[p]) # 0
    THEN FindPreferred(models, PREFERRED_MODELS[p])
    ELSE SelectFrom(models, p + 1)

selOther ==
    <<chunkVars, worldVars, cacheVars, coordVars, sumVars, extVars,
      msgVars, sweepVars, faultVars, ensVars, initVars, expVars, gateVars,
      menuVars, bootVars, optVars, lsVars, keyVars>>

InitSelect ==
    /\ listing \in Listings
    /\ selModel \in {NoModel, "models/gemini-pro"}
    /\ selPc = "start"
    /\ selResult = NoOutcome
    \* sel: the other components idle
    /\ ChunksIdle /\ WorldIdle /\ CacheIdle /\ CoordIdle /\ SumIdle
    /\ KeyIdle
    /\ LsIdle
    /\ OptIdle
    /\ BootIdle
    /\ MenuIdle
    /\ GateIdle
    /\ ExpIdle
    /\ InitIdle
    /\ EnsIdle
    /\ ExtIdle
    /\ MsgIdle
    /\ SweepIdle
    /\ FaultIdle

\* initialize(apiKey): the model is reset and the listing is requested
InitializeStarts ==
    /\ selPc = "start"
    /\ selModel' = NoModel
    /\ selPc' = "listing"
    /\ UNCHANGED <<listing, selResult, selOther>>

\* findAndSetModel after the listing request settled: without a listing it
\* throws; with one it selects by preference, then any model, or throws
ListingResolves ==
    /\ selPc = "listing"
    /\ \E outcome \in ListingOutcomes :
        IF outcome # "ok"
        THEN /\ selResult' = Rejected(ERR_LISTING)
             /\ selModel' = selModel
        ELSE IF SelectFrom(listing, 1) = 0
        THEN /\ selResult' = Rejected(ERR_NO_MODEL)
             /\ selModel' = selModel
        ELSE /\ selResult' = Resolved(Undefined)
             /\ selModel' = listing[SelectFrom(listing, 1)].name
    /\ selPc' = "done"
    /\ UNCHANGED <<listing, selOther>>

NextSelect ==
    \/ InitializeStarts
    \/ ListingResolves

SpecSelect == InitSelect /\ [][NextSelect]_vars

\* the listed models that support content generation
Generating ==
    {i \in DOMAIN listing :
        "generateContent" \in listing[i].supportedGenerationMethods}

\* the preferred names, by position, that some generating model matches
MatchedPreferences ==
    {p \in DOMAIN PREFERRED_MODELS :
        \E i \in Generating : NameIncludes(listing[i].name, PREFERRED_MODELS[p])}

\* C18: when initialize has settled on a listing, the model is determined
\* by the listing and the preference order.  If some preferred name is
\* matched by a generating model, the model selected is a generating model
\* matching the earliest such name; otherwise, if some model generates, it
\* is a generating model; otherwise initialize has failed and no model is
\* selected.  A selected model always generates, and without a listing
\* none is selected.
C18_ModelSelection ==
    selPc = "done" =>
        IF selResult = Rejected(ERR_LISTING) THEN selModel = NoModel
        ELSE IF MatchedPreferences # {}
        THEN LET best == CHOOSE p \in MatchedPreferences :
                             \A q \in MatchedPreferences : p <= q
             IN  /\ selResult.ok
                 /\ \E i \in Generating :
                     /\ listing[i].name = selModel
                     /\ NameIncludes(selModel, PREFERRED_MODELS[best])
        ELSE IF Generating # {}
        THEN /\ selResult.ok
             /\ \E i \in Generating : listing[i].name = selModel
        ELSE /\ selResult = Rejected(ERR_NO_MODEL)
             /\ selModel = NoModel

\* the listing names a later preference first and a non-generating match of
\* an earlier one: the earliest preference that generates was selected
C18_Witness ==
    /\ selPc = "done"
    /\ Len(listing) = 2
    /\ listing[1].name = "models/gemini-pro"
    /\ listing[2].name = "models/gemini-1.5-pro-latest"
    /\ Generating = {1, 2}
    /\ selModel = "models/gemini-1.5-pro-latest"

----------------------------------------------------------------------------
(* SpecEnsure: one call of BackgroundService.ensureContentScript against a *)
(* tab that may answer, ignore or reject every ping, may have left         *)
(* YouTube, and may refuse the injection.                                  *)

\* for (let i = 0; i < 5; i++)
VERIFY_ATTEMPTS == 5

\* await this.delay(1000)
VERIFY_DELAY == 1000

\* How a ping may end: a response with pong, a response without it (or
\* none), or a rejected sendMessage.
PingAnswers == {"pong", "nopong", "error"}

\* a catch block that throws the error on
EnsureRethrow == [settled |-> TRUE, ok |-> FALSE, error |-> "ensure"]

\* the outer catch block of ensureContentScript: return false
EnsureCatch == Resolved(FALSE)

ensOther ==
    <<chunkVars, worldVars, cacheVars, coordVars, sumVars, extVars,
      msgVars, sweepVars, faultVars, selVars, initVars, expVars, gateVars,
      menuVars, bootVars, optVars, lsVars, keyVars>>

InitEnsure ==
    /\ ensPc = "ping"
    /\ ensPingLog = <<>>
    /\ ensInjections = 0
    /\ ensDelays = <<>>
    /\ ensAttempt = 0
    /\ ensResult = NoOutcome
    \* ens: the other components idle
    /\ ChunksIdle /\ WorldIdle /\ CacheIdle /\ CoordIdle /\ SumIdle
    /\ KeyIdle
    /\ LsIdle
    /\ OptIdle
    /\ BootIdle
    /\ MenuIdle
    /\ GateIdle
    /\ ExpIdle
    /\ InitIdle
    /\ ExtIdle
    /\ MsgIdle
    /\ SweepIdle
    /\ FaultIdle
    /\ SelIdle

\* the first ping settles: a pong returns true, anything else goes on to
\* chrome.tabs.get
FirstPing ==
    /\ ensPc = "ping"
    /\ \E answer \in PingAnswers :
        /\ ensPingLog' = Append(ensPingLog, answer)
        /\ IF answer = "pong"
           THEN ensResult' = Resolved(TRUE) /\ ensPc' = "done"
           ELSE ensResult' = ensResult /\ ensPc' = "tabGet"
    /\ UNCHANGED <<ensInjections, ensDelays, ensAttempt, ensOther>>

\* chrome.tabs.get settles: a tab that left YouTube returns false, a
\* rejection is caught, otherwise executeScript is called
TabGet ==
    /\ ensPc = "tabGet"
    /\ \E outcome \in {"youtube", "elsewhere", "error"} :
        IF outcome = "youtube"
        THEN /\ ensInjections' = ensInjections + 1
             /\ ensPc' = "inject"
             /\ ensResult' = ensResult
        ELSE /\ ensResult' = IF outcome = "elsewhere" THEN Resolved(FALSE)
                             ELSE EnsureCatch
             /\ ensPc' = "done"
             /\ ensInjections' = ensInjections
    /\ UNCHANGED <<ensPingLog, ensDelays, ensAttempt, ensOther>>

\* executeScript settles: a rejection is caught; otherwise the delay is
\* waited and the verification loop starts
Inject ==
    /\ ensPc = "inject"
    /\ \E ok \in BOOLEAN :
        IF ok
        THEN /\ ensDelays' = Append(ensDelays, VERIFY_DELAY)
             /\ ensAttempt' = 0
             /\ ensPc' = "verify"
             /\ ensResult' = ensResult
        ELSE /\ ensResult' = EnsureCatch
             /\ ensPc' = "done"
             /\ UNCHANGED <<ensDelays, ensAttempt>>
    /\ UNCHANGED <<ensPingLog, ensInjections, ensOther>>

\* One turn of the verification loop: a pong returns true; anything else
\* waits the delay, and after the last turn the loop's throw is caught.
VerifyPing ==
    /\ ensPc = "verify"
    /\ ensAttempt < VERIFY_ATTEMPTS
    /\ \E answer \in PingAnswers :
        /\ ensPingLog' = Append(ensPingLog, answer)
        /\ IF answer = "pong"
           THEN /\ ensResult' = Resolved(TRUE)
                /\ ensPc' = "done"
                /\ UNCHANGED <<ensDelays, ensAttempt>>
           ELSE /\ ensDelays' = Append(ensDelays, VERIFY_DELAY)
                /\ ensAttempt' = ensAttempt + 1
                /\ IF ensAttempt + 1 < VERIFY_ATTEMPTS
                   THEN ensResult' = ensResult /\ ensPc' = "verify"
                   ELSE ensResult' = EnsureCatch /\ ensPc' = "done"
    /\ UNCHANGED <<ensInjections, ensOther>>

NextEnsure ==
    \/ FirstPing
    \/ TabGet
    \/ Inject
    \/ VerifyPing

SpecEnsure == InitEnsure /\ [][NextEnsure]_vars

\* C19: ensureContentScript never rejects and settles to a boolean.  It is
\* true exactly when the last ping of the call was answered with pong.
\* The script is injected at most once, and only after the first ping
\* went without pong; at most VERIFY_ATTEMPTS pings follow the first; every
\* wait is VERIFY_DELAY; and when the injection failed or every re-ping
\* went without pong the result is false.
C19_EnsureResolvesBoolean ==
    /\ ensResult.settled =>
        /\ ensResult.ok
        /\ ensResult.value \in BOOLEAN
        /\ ensPc = "done"
        /\ ensResult.value <=> ensPingLog[Len(ensPingLog)] = "pong"
    /\ ensPc = "done" => ensResult.settled
    /\ ensInjections <= 1
    /\ ensInjections = 1 => ensPingLog[1] # "pong"
    /\ Len(ensPingLog) <= 1 + VERIFY_ATTEMPTS
    /\ Len(ensPingLog) > 1 => ensInjections = 1
    /\ \A i \in DOMAIN ensDelays : ensDelays[i] = VERIFY_DELAY
    /\ Len(ensDelays) <= 1 + VERIFY_ATTEMPTS
    /\ (ensPc = "done" /\ Len(ensPingLog) = 1 + VERIFY_ATTEMPTS
        /\ ensPingLog[Len(ensPingLog)] # "pong") =>
           /\ ensResult = Resolved(FALSE)
           /\ Len(ensDelays) = 1 + VERIFY_ATTEMPTS

\* the first ping and all five re-pings after the injection went without
\* pong, and the call resolved to false
C19_Witness ==
    /\ ensPc = "done"
    /\ Len(ensPingLog) = 1 + VERIFY_ATTEMPTS
    /\ \A i \in DOMAIN ensPingLog : ensPingLog[i] # "pong"
    /\ ensInjections = 1
    /\ ensResult = Resolved(FALSE)

----------------------------------------------------------------------------
(* SpecInit: the content script's initializeContentScript and the          *)
(* listener's use of it, on a page that becomes ready or stops being so at *)
(* any moment.                                                             *)

MaxInitRequests == 2

\* const MAX_INIT_ATTEMPTS = 5
MAX_INIT_ATTEMPTS == 5

ERR_INIT == "Content script initialization failed"

initOther ==
    <<chunkVars, worldVars, cacheVars, coordVars, sumVars, extVars,
      msgVars, sweepVars, faultVars, selVars, ensVars, expVars, gateVars,
      menuVars, bootVars, optVars, lsVars, keyVars>>

\* The script has just been loaded: the call at load made the promise and
\* its first attemptInit is about to run.
InitInit ==
    /\ initializationPromise = "pending"
    /\ initializationAttempts = 0
    /\ scriptInitialized = FALSE
    /\ pageReady \in BOOLEAN
    /\ initWaiting = [waiting |-> FALSE]
    /\ initLog = <<>>
    \* init: the other components idle
    /\ ChunksIdle /\ WorldIdle /\ CacheIdle /\ CoordIdle /\ SumIdle
    /\ KeyIdle
    /\ LsIdle
    /\ OptIdle
    /\ BootIdle
    /\ MenuIdle
    /\ GateIdle
    /\ ExpIdle
    /\ ExtIdle
    /\ MsgIdle
    /\ SweepIdle
    /\ FaultIdle
    /\ SelIdle
    /\ EnsIdle

\* the page is navigated, or its player appears or goes
PageChanges ==
    /\ pageReady' = ~pageReady
    /\ initWaiting' = IF initWaiting.waiting
                      THEN [initWaiting EXCEPT !.ready = FALSE]
                      ELSE initWaiting
    /\ UNCHANGED <<initializationPromise, initializationAttempts,
                   scriptInitialized, initLog, initOther>>

\* One run of attemptInit: rejects once the attempts are used up, otherwise
\* counts the attempt and either initializes or waits for the next run.
AttemptInit ==
    /\ initializationPromise = "pending"
    /\ IF initializationAttempts >= MAX_INIT_ATTEMPTS
       THEN /\ initializationPromise' = "rejected"
            /\ UNCHANGED <<initializationAttempts, scriptInitialized>>
       ELSE /\ initializationAttempts' = initializationAttempts + 1
            /\ IF pageReady
               THEN /\ scriptInitialized' = TRUE
                    /\ initializationPromise' = "resolved"
               ELSE UNCHANGED <<scriptInitialized, initializationPromise>>
    /\ UNCHANGED <<pageReady, initWaiting, initLog, initOther>>

\* The listener gets a message other than ping: handled at once when the
\* script is initialized, otherwise it waits for initializeContentScript,
\* which returns the promise already made.
InitRequest ==
    /\ ~initWaiting.waiting
    /\ Len(initLog) < MaxInitRequests
    /\ IF scriptInitialized
       THEN /\ initLog' = Append(initLog, [ready |-> pageReady,
                                           outcome |-> "handled"])
            /\ UNCHANGED initWaiting
       ELSE /\ initWaiting' = [waiting |-> TRUE, ready |-> pageReady]
            /\ UNCHANGED initLog
    /\ UNCHANGED <<initializationPromise, initializationAttempts,
                   scriptInitialized, pageReady, initOther>>

\* the promise the request waits for has settled: then handles the
\* message, catch answers with the initialization failure
InitSettles ==
    /\ initWaiting.waiting
    /\ initializationPromise \in {"resolved", "rejected"}
    /\ initLog' = Append(initLog,
          [ready |-> initWaiting.ready,
           outcome |-> IF initializationPromise = "resolved"
                       THEN "handled" ELSE ERR_INIT])
    /\ initWaiting' = [waiting |-> FALSE]
    /\ UNCHANGED <<initializationPromise, initializationAttempts,
                   scriptInitialized, pageReady, initOther>>

NextInit ==
    \/ PageChanges
    \/ AttemptInit
    \/ InitRequest
    \/ InitSettles

SpecInit == InitInit /\ [][NextInit]_vars

\* C21: a request that arrives while the page is ready, and is answered
\* with the page still ready, is handled: it is never answered with the
\* initialization failure of an earlier time.
C21_LaterRequestCanSucceed ==
    \A i \in DOMAIN initLog :
        initLog[i].ready => initLog[i].outcome = "handled"

----------------------------------------------------------------------------
(* SpecExport: handleExportSummary on every Summary with up to MaxPoints   *)
(* key points and topics, none of them holding a line break.               *)

MaxPoints == 2

\* the backtick character
BT == Tok("backtick")

STAR == Tok("*")

\* the bullet character U+2022
BULLET == Tok("bullet")

\* the key points of a Summary: strings without line breaks
KeyPointStrings == {<<>>, <<Tok("a")>>, <<STAR>>}

\* the topics of a Summary: strings without line breaks
TopicStrings == {<<>>, <<Tok("a")>>, <<BT>>, <<Tok("a"), BT>>}

ExportSummaries ==
    {[videoId |-> <<Tok("v1")>>, content |-> c, keyPoints |-> k,
      topics |-> t] :
        c \in {<<>>, <<Tok("c")>>},
        k \in SeqsUpTo(KeyPointStrings, MaxPoints),
        t \in SeqsUpTo(TopicStrings, MaxPoints)}

\* array.map(f)
MapSeq(items, F(_)) == [i \in 1..Len(items) |-> F(items[i])]

\* new Date(summary.timestamp).toLocaleString()
Generated == <<Tok("date")>>

\* BackgroundService.exportAsText
exportAsText(summary) ==
    LET point(x) == <<BULLET, SP>> \o x
    IN  Trim(<<NL, Tok("Video Summary"), NL,
               Tok("Title: ")>> \o summary.videoId \o <<NL,
               Tok("Generated: ")>> \o Generated \o <<NL, NL,
               Tok("Key Points:"), NL>>
             \o JoinWith(MapSeq(summary.keyPoints, point), <<NL>>)
             \o <<NL, NL, Tok("Topics: ")>>
             \o JoinWith(summary.topics, <<Tok(","), SP>>)
             \o <<NL, NL, Tok("Full Summary:"), NL>>
             \o summary.content
             \o <<NL, SP, SP, SP, SP>>)

\* BackgroundService.exportAsMarkdown
exportAsMarkdown(summary) ==
    LET point(x) == <<STAR, SP>> \o x
        topic(x) == <<BT>> \o x \o <<BT>>
    IN  Trim(<<NL, Tok("# Video Summary"), NL, NL,
               Tok("## Metadata"), NL,
               Tok("- **Video ID**: ")>> \o summary.videoId \o <<NL,
               Tok("- **Generated**: ")>> \o Generated \o <<NL, NL,
               Tok("## Key Points"), NL>>
             \o JoinWith(MapSeq(summary.keyPoints, point), <<NL>>)
             \o <<NL, NL, Tok("## Topics"), NL>>
             \o JoinWith(MapSeq(summary.topics, topic), <<SP>>)
             \o <<NL, NL, Tok("## Full Summary"), NL>>
             \o summary.content
             \o <<NL, SP, SP, SP, SP>>)

\* BackgroundService.handleExportSummary
handleExportSummary(summary, format) ==
    Success(IF format = "markdown" THEN exportAsMarkdown(summary)
            ELSE exportAsText(summary))

expOther ==
    <<chunkVars, worldVars, cacheVars, coordVars, sumVars, extVars,
      msgVars, sweepVars, faultVars, selVars, ensVars, initVars, gateVars,
      menuVars, bootVars, optVars, lsVars, keyVars>>

InitExport ==
    /\ expSummary \in ExportSummaries
    /\ expFormat \in {"markdown", "text"}
    /\ expPc = "ready"
    /\ expResp = NoResponse
    \* exp: the other components idle
    /\ ChunksIdle /\ WorldIdle /\ CacheIdle /\ CoordIdle /\ SumIdle
    /\ KeyIdle
    /\ LsIdle
    /\ OptIdle
    /\ BootIdle
    /\ MenuIdle
    /\ GateIdle
    /\ ExtIdle
    /\ MsgIdle
    /\ SweepIdle
    /\ FaultIdle
    /\ SelIdle
    /\ EnsIdle
    /\ InitIdle

ExportSummary ==
    /\ expPc = "ready"
    /\ expResp' = handleExportSummary(expSummary, expFormat)
    /\ expPc' = "done"
    /\ UNCHANGED <<expSummary, expFormat, expOther>>

NextExport ==
    \/ ExportSummary

SpecExport == InitExport /\ [][NextExport]_vars

\* Reading the exported Markdown back: its lines, its sections, the
\* bulleted lines of a section and the inline code spans of a line.
RECURSIVE SplitOnNewline(_)
SplitOnNewline(t) ==
    LET i == FirstIndex(t, 1, "\n")
    IN  IF i = 0 THEN <<t>>
        ELSE <<SubSeq(t, 1, i - 1)>> \o SplitOnNewline(SubSeq(t, i + 1, Len(t)))

IsHeading(line) ==
    /\ Len(line) = 1
    /\ line[1].c \in {"# Video Summary", "## Metadata", "## Key Points",
                      "## Topics", "## Full Summary"}

\* the lines after the first line that is the heading, up to the next
\* heading
SectionOf(lines, heading) ==
    LET starts == {i \in DOMAIN lines : lines[i] = <<Tok(heading)>>}
        from == CHOOSE i \in starts : \A j \in starts : i <= j
        later == {i \in (from + 1)..Len(lines) : IsHeading(lines[i])}
        to == IF later = {} THEN Len(lines) + 1
              ELSE CHOOSE i \in later : \A j \in later : i <= j
    IN  IF starts = {} THEN <<>> ELSE SubSeq(lines, from + 1, to - 1)

IsBulleted(line) == Len(line) >= 2 /\ line[1] = STAR /\ line[2] = SP

\* the texts of the bulleted lines of a section, in order
RECURSIVE BulletTexts(_)
BulletTexts(section) ==
    IF section = <<>> THEN <<>>
    ELSE IF IsBulleted(Head(section))
         THEN <<SubSeq(Head(section), 3, Len(Head(section)))>>
              \o BulletTexts(Tail(section))
         ELSE BulletTexts(Tail(section))

RECURSIVE BacktickRun(_)
BacktickRun(t) ==
    IF t # <<>> /\ Head(t) = BT THEN 1 + BacktickRun(Tail(t)) ELSE 0

\* The contents of the inline code spans of a Markdown line: a run of n
\* backticks opens a span that the next run of exactly n backticks
\* closes; a run that nothing closes is plain text.
RECURSIVE CodeSpans(_)
CodeSpans(t) ==
    IF t = <<>> THEN <<>>
    ELSE IF Head(t) # BT THEN CodeSpans(Tail(t))
    ELSE LET n == BacktickRun(t)
             rest == SubSeq(t, n + 1, Len(t))
             closes == {j \in 2..Len(rest) :
                          /\ rest[j - 1] # BT
                          /\ BacktickRun(SubSeq(rest, j, Len(rest))) = n}
             j == CHOOSE i \in closes : \A k \in closes : i <= k
         IN  IF closes = {} THEN CodeSpans(rest)
             ELSE <<SubSeq(rest, 1, j - 1)>>
                  \o CodeSpans(SubSeq(rest, j + n, Len(rest)))

ExportedLines == SplitOnNewline(expResp.data)

\* C22: exportSummary with format 'markdown' succeeds with a string whose
\* Key Points section has one bulleted line per key point, in order, and
\* whose Topics section has one inline code span per topic, in order.
C22_MarkdownSections ==
    (expPc = "done" /\ expFormat = "markdown") =>
        /\ expResp.success
        /\ BulletTexts(SectionOf(ExportedLines, "## Key Points"))
             = expSummary.keyPoints
        /\ CodeSpans(JoinWith(SectionOf(ExportedLines, "## Topics"), <<NL>>))
             = expSummary.topics

\* The sections read back as above for the Summaries whose topics are not
\* empty and hold no backtick.
PlainTopicsReadBack ==
    (/\ expPc = "done"
     /\ \A i \in DOMAIN expSummary.topics :
          /\ expSummary.topics[i] # <<>>
          /\ \A j \in DOMAIN expSummary.topics[i] :
                expSummary.topics[i][j] # BT)
        => C22_MarkdownSections

----------------------------------------------------------------------------
(* SpecTranscript: extractTranscript of the content script as a whole: the *)
(* test of the page, the wait for the player, the search for the           *)
(* transcript panel, the wait for its container, and then the segment      *)
(* query of SpecExtract.  What a look at the page finds is open at every   *)
(* look.                                                                   *)

\* the page holds up to MaxMenuButtons buttons that pass the menu filter
MaxMenuButtons == 3

\* waitForVideoPlayer: maxAttempts = 10
GATE_MAX_ATTEMPTS == 10

\* await new Promise(resolve => setTimeout(resolve, 1000)) of the gate
GATE_DELAY == 1000

\* const maxRetries = 12
maxRetries == 12

\* the setTimeout of the container wait loop
CONTAINER_DELAY == 1000

ERR_NOT_VIDEO == "Not on a YouTube video page"

ERR_NOT_READY == "Video player not ready after maximum attempts"

ERR_NO_MENU(hasCaptions) ==
    IF hasCaptions
    THEN "Could not find any menu buttons to access transcript. Try refreshing the page if you know the video has captions."
    ELSE "Could not find any menu buttons to access transcript. This video appears to have no captions available."

ERR_NO_OPTION(hasCaptions) ==
    IF hasCaptions
    THEN "Could not find transcript option in any menu. Try refreshing the page if you know the video has captions."
    ELSE "Could not find transcript option in any menu. This video appears to have no captions available."

ERR_NO_CONTAINER ==
    "Could not find transcript container after multiple attempts. This video might not have a transcript available."

gateOther ==
    <<chunkVars, worldVars, cacheVars, coordVars, sumVars, msgVars,
      sweepVars, faultVars, selVars, ensVars, initVars, expVars, menuVars,
      bootVars, optVars, lsVars, keyVars>>

InitTranscript ==
    /\ dom = <<>>
    /\ segments = <<>>
    /\ retrySegments = <<>>
    /\ extPc = "path"
    /\ extResult = NoOutcome
    /\ GateIdle
    \* gate: the other components idle
    /\ ChunksIdle /\ WorldIdle /\ CacheIdle /\ CoordIdle /\ SumIdle
    /\ KeyIdle
    /\ LsIdle
    /\ OptIdle
    /\ BootIdle
    /\ MenuIdle
    /\ ExpIdle
    /\ InitIdle
    /\ EnsIdle
    /\ SelIdle
    /\ FaultIdle
    /\ SweepIdle
    /\ MsgIdle

\* if (!window.location.pathname.includes('/watch')) throw
CheckPath ==
    /\ extPc = "path"
    /\ \E onWatch \in BOOLEAN :
        IF onWatch
        THEN /\ extPc' = "gate"
             /\ extResult' = extResult
        ELSE /\ extPc' = "done"
             /\ extResult' = Rejected(ERR_NOT_VIDEO)
    /\ UNCHANGED <<dom, segments, retrySegments, gateVars, gateOther>>

\* a waitForVideoPlayer that goes round once more than maxAttempts allows
PollOnceMore(i) == i <= GATE_MAX_ATTEMPTS

\* for (let i = 0; i < maxAttempts; i++)
GateContinues(i) == i < GATE_MAX_ATTEMPTS

\* one round of the loop of waitForVideoPlayer: the three queries, and the
\* return when all are there (i goes out of scope), the 1000 ms wait
\* otherwise
GatePoll ==
    /\ extPc = "gate"
    /\ GateContinues(gateAttempt)
    /\ \E ready \in BOOLEAN :
        IF ready
        THEN /\ readyObserved' = TRUE
             /\ extPc' = "method1"
             /\ gateAttempt' = 0
             /\ UNCHANGED timerDelay
        ELSE /\ gateAttempt' = gateAttempt + 1
             /\ timerDelay' = GATE_DELAY
             /\ UNCHANGED <<readyObserved, extPc>>
    /\ UNCHANGED <<dom, segments, retrySegments, extResult,
                   transcriptContainer, menuButtons, retryCount, gateOther>>

\* the loop of waitForVideoPlayer ran out: throw new Error('Video player
\* not ready after maximum attempts')
GateExhausted ==
    /\ extPc = "gate"
    /\ ~GateContinues(gateAttempt)
    /\ extPc' = "done"
    /\ extResult' = Rejected(ERR_NOT_READY)
    /\ UNCHANGED <<dom, segments, retrySegments, gateVars, gateOther>>

\* Method 1: the transcript may be open already
MethodOne ==
    /\ extPc = "method1"
    /\ \E found \in BOOLEAN :
        /\ transcriptContainer' = found
        /\ extPc' = IF found THEN "containerWait" ELSE "panels"
    /\ UNCHANGED <<dom, segments, retrySegments, extResult, gateAttempt, readyObserved, menuButtons, retryCount, timerDelay, gateOther>>

\* Method 2, first part: expandMenuPanels clicks the expand buttons found
\* (500 ms after each), then the engagement panels are searched for one
\* titled transcript
SearchPanels ==
    /\ extPc = "panels"
    /\ \E expanded \in BOOLEAN, found \in BOOLEAN :
        /\ timerDelay' = IF expanded THEN 500 ELSE timerDelay
        /\ transcriptContainer' = found
        /\ extPc' = IF found THEN "containerWait" ELSE "buttons"
    /\ UNCHANGED <<dom, segments, retrySegments, extResult, gateAttempt, readyObserved, menuButtons, retryCount, gateOther>>

\* Method 2, second part: a transcript button is clicked (1500 ms), or the
\* menu buttons are collected; none throws
SearchButtons ==
    /\ extPc = "buttons"
    /\ \E direct \in BOOLEAN, n \in 0..MaxMenuButtons,
          hasCaptions \in BOOLEAN :
        IF direct
        THEN /\ timerDelay' = 1500
             /\ extPc' = "containerWait"
             /\ UNCHANGED <<menuButtons, extResult>>
        ELSE IF n = 0
        THEN /\ extPc' = "done"
             /\ extResult' = Rejected(ERR_NO_MENU(hasCaptions))
             /\ UNCHANGED <<menuButtons, timerDelay>>
        ELSE /\ menuButtons' = n
             /\ extPc' = "menus"
             /\ UNCHANGED <<extResult, timerDelay>>
    /\ UNCHANGED <<dom, segments, retrySegments, gateAttempt, readyObserved, transcriptContainer, retryCount, gateOther>>

\* one round of for (const button of menuButtons): the click and the
\* 1000 ms wait, then the transcript item is clicked (1500 ms) and the loop
\* left (no button remains to try), or the menu closed (500 ms); an error is
\* caught and the loop goes on
TryMenuButton ==
    /\ extPc = "menus"
    /\ menuButtons > 0
    /\ \E outcome \in {"found", "absent", "threw"} :
        /\ timerDelay' = CASE outcome = "found" -> 1500
                           [] outcome = "absent" -> 500
                           [] OTHER -> timerDelay
        /\ IF outcome = "found"
           THEN /\ extPc' = "containerWait"
                /\ menuButtons' = 0
           ELSE /\ menuButtons' = menuButtons - 1
                /\ UNCHANGED extPc
    /\ UNCHANGED <<dom, segments, retrySegments, extResult, gateAttempt, readyObserved, transcriptContainer, retryCount, gateOther>>

\* if (!foundTranscript) throw
MenusExhausted ==
    /\ extPc = "menus"
    /\ menuButtons = 0
    /\ \E hasCaptions \in BOOLEAN :
        extResult' = Rejected(ERR_NO_OPTION(hasCaptions))
    /\ extPc' = "done"
    /\ UNCHANGED <<dom, segments, retrySegments, gateVars, gateOther>>

\* a container wait loop that goes round once more than maxRetries allows
WaitOnceMore(container, count) == ~container /\ count <= maxRetries

\* while (!transcriptContainer && retryCount < maxRetries)
ContainerWaitContinues(container, count) ==
    ~container /\ count < maxRetries

\* one round of the container wait loop: the 1000 ms wait, the query, and
\* retryCount++ when it found nothing
ContainerPoll ==
    /\ extPc = "containerWait"
    /\ ContainerWaitContinues(transcriptContainer, retryCount)
    /\ timerDelay' = CONTAINER_DELAY
    /\ \E found \in BOOLEAN :
        /\ transcriptContainer' = found
        /\ retryCount' = IF found THEN retryCount ELSE retryCount + 1
    /\ UNCHANGED <<dom, segments, retrySegments, extPc, extResult,
                   gateAttempt, readyObserved, menuButtons,
                   gateOther>>

\* after the loop: if (!transcriptContainer) throw; otherwise
\* expandTranscript (500 ms after each button clicked) and the 1000 ms wait
\* before the segment query
ContainerSettled ==
    /\ extPc = "containerWait"
    /\ ~ContainerWaitContinues(transcriptContainer, retryCount)
    /\ IF transcriptContainer
       THEN /\ extPc' = "query"
            /\ timerDelay' = 1000
            /\ extResult' = extResult
       ELSE /\ extPc' = "done"
            /\ extResult' = Rejected(ERR_NO_CONTAINER)
            /\ timerDelay' = timerDelay
    /\ UNCHANGED <<dom, segments, retrySegments, gateAttempt, readyObserved, transcriptContainer, menuButtons,
                   retryCount, gateOther>>

\* a step of extractTranscript itself, before or at the segment query
ExtractStep ==
    \/ CheckPath
    \/ GatePoll
    \/ GateExhausted
    \/ MethodOne
    \/ SearchPanels
    \/ SearchButtons
    \/ TryMenuButton
    \/ MenusExhausted
    \/ ContainerPoll
    \/ ContainerSettled
    \/ FindSegments
    \/ RetryFind
    \/ MapSegments

NextTranscript ==
    \/ CheckPath
    \/ GatePoll
    \/ GateExhausted
    \/ MethodOne
    \/ SearchPanels
    \/ SearchButtons
    \/ TryMenuButton
    \/ MenusExhausted
    \/ ContainerPoll
    \/ ContainerSettled
    \/ DomChanges
    \/ FindSegments
    \/ RetryFind
    \/ MapSegments

SpecTranscript == InitTranscript /\ [][NextTranscript]_vars

\* every timer extractTranscript awaits fires and every query returns: the
\* function is not held up for ever, whatever the page does meanwhile
SpecTranscriptFair == SpecTranscript /\ WF_vars(ExtractStep)

\* extractTranscript has got past waitForVideoPlayer
PastGate == extPc \notin {"path", "gate", "done"}

\* C29: extractTranscript terminates whatever the page does; the wait for
\* the player looks at most 10 times (the look after i failed ones happens
\* only when i < 10), 1000 ms after each look that did not see it ready, and
\* rejects when none of the ten did; the search for the panel starts only
\* after a look saw the player ready; the wait for the container queries at
\* most 12 times, 1000 ms before each, and rejects when none found it; and
\* the segment query is repeated at most once.
C29_ExtractTerminates ==
    /\ [](/\ gateAttempt <= 10
          /\ retryCount <= 12
          /\ (PastGate => readyObserved)
          /\ (extPc = "done" /\ ~readyObserved)
                => extResult \in {Rejected(ERR_NOT_READY),
                                   Rejected(ERR_NOT_VIDEO)}
          /\ (extPc = "done" /\ extResult = Rejected(ERR_NOT_READY))
                => (gateAttempt = 10 /\ ~readyObserved)
          /\ (extPc = "done" /\ extResult = Rejected(ERR_NO_CONTAINER))
                => (retryCount = 12 /\ ~transcriptContainer))
    /\ [][/\ (extPc = "gate" /\ (gateAttempt' # gateAttempt
                                   \/ readyObserved' # readyObserved))
                => /\ gateAttempt < 10
                   /\ (~readyObserved'
                         => /\ gateAttempt' = gateAttempt + 1
                            /\ timerDelay' = 1000)
          /\ (extPc = "containerWait"
                /\ (retryCount' # retryCount
                      \/ transcriptContainer' # transcriptContainer))
                => /\ retryCount < 12
                   /\ timerDelay' = 1000
                   /\ (~transcriptContainer'
                         => retryCount' = retryCount + 1)
          /\ (extPc' = "query" /\ extPc # "query")
                => extPc = "containerWait"
          /\ (extPc' = "waiting" /\ extPc # "waiting") => extPc = "query"
          /\ (extPc = "waiting" /\ extPc' # "waiting")
                => extPc' \in {"map", "done"}
          /\ (extPc \in {"map", "done"}) => extPc' \notin {"query", "waiting"}
         ]_vars
    /\ <>(extPc = "done")

\* a look saw the player ready, the twelfth query found the container, the
\* first segment query found nothing and the second did
C29_Witness ==
    /\ extPc = "done"
    /\ readyObserved
    /\ retryCount = 11
    /\ transcriptContainer
    /\ retrySegments # <<>>

\* the segments the segment query of extractTranscript found: those of the
\* first query, or those of the repeated query when the first found none
FoundSegments == IF segments # <<>> THEN segments ELSE retrySegments

\* the segments from which a text could be read, in the order of the page
RECURSIVE WithText(_)
WithText(segs) ==
    IF segs = <<>> THEN <<>>
    ELSE IF Head(segs).text # "" THEN <<Head(segs)>> \o WithText(Tail(segs))
    ELSE WithText(Tail(segs))

\* line is '[timestamp] text' of segment seg
IsLineOf(line, seg) ==
    /\ line[1] = LB
    /\ line[Len(line)] = Tok(seg.text)
    /\ line[Len(line) - 1] = SP
    /\ line[Len(line) - 2] = RB
    /\ IF seg.timestamp = "" THEN Len(line) = 4
       ELSE Len(line) = 5 /\ line[2] = Tok(seg.timestamp)

\* the transcript t has one line per segment of segs with text, in order
OneLinePerTextSegment(t, segs) ==
    LET lines == SplitOnNewline(t)
        kept == WithText(segs)
    IN  /\ Len(lines) = Len(kept)
        /\ \A i \in 1..Len(kept) : IsLineOf(lines[i], kept[i])

\* C30: once extractTranscript has found segments, it returns a transcript
\* with one line '[timestamp] text' per segment that has text, in the order
\* of the page, when at least one of them has text (the segments without
\* text are left out and do not fail the call), and it fails when none has.
C30_OneLinePerSegmentWithText ==
    (extPc = "done" /\ FoundSegments # <<>>)
        => IF WithText(FoundSegments) # <<>>
           THEN /\ extResult.ok
                /\ OneLinePerTextSegment(extResult.value, FoundSegments)
           ELSE ~extResult.ok

\* the same of the calls whose first segment query found the segments
FirstQuerySegmentsFormatted ==
    (extPc = "done" /\ segments # <<>>)
        => IF WithText(segments) # <<>>
           THEN /\ extResult = Resolved(JoinLines(TranscriptSegments(segments)))
                /\ OneLinePerTextSegment(extResult.value, segments)
           ELSE extResult = Rejected(ERR_NO_TEXT)

----------------------------------------------------------------------------
(* SpecMenus: the menu fallback of extractTranscript, entered when no      *)
(* direct transcript button was found: the menu buttons are tried in turn. *)
(* What a menu shows once opened is open.                                  *)

menuOther ==
    <<chunkVars, worldVars, cacheVars, coordVars, sumVars, extVars,
      msgVars, sweepVars, faultVars, selVars, ensVars, initVars, expVars,
      gateVars, bootVars, optVars, lsVars, keyVars>>

\* (button as HTMLElement).click()
ButtonClick(i) == [on |-> "button", index |-> i]

\* (transcriptMenuItem as HTMLElement).click()
ItemClick == [on |-> "item", index |-> 0]

\* document.body.click()
BodyClick == [on |-> "body", index |-> 0]

InitMenus ==
    /\ captions \in BOOLEAN
    /\ menuCount \in 0..MaxMenuButtons
    /\ menuIndex = 1
    /\ foundTranscript = FALSE
    /\ menuScan = "none"
    /\ menuClicks = <<>>
    /\ menuPc = "filter"
    /\ menuResult = NoOutcome
    \* menu: the other components idle
    /\ ChunksIdle /\ WorldIdle /\ CacheIdle /\ CoordIdle /\ SumIdle
    /\ KeyIdle
    /\ LsIdle
    /\ OptIdle
    /\ BootIdle
    /\ ExtIdle /\ MsgIdle /\ SweepIdle /\ FaultIdle /\ SelIdle /\ EnsIdle
    /\ InitIdle /\ ExpIdle /\ GateIdle

\* if (menuButtons.length === 0) throw
NoMenuButtons ==
    /\ menuPc = "filter"
    /\ IF menuCount = 0
       THEN /\ menuPc' = "done"
            /\ menuResult' = Rejected(ERR_NO_MENU(captions))
       ELSE /\ menuPc' = "head"
            /\ menuResult' = menuResult
    /\ UNCHANGED <<captions, menuCount, menuIndex, foundTranscript, menuScan,
                   menuClicks, menuOther>>

\* a loop that tries every menu button, whatever was found
NeverBreaks(found) == FALSE

\* if (foundTranscript) break
LoopBreaks(found) == found

\* the head of for (const button of menuButtons), and what follows the
\* loop: if (!foundTranscript) throw, otherwise on to the container wait
LoopHead ==
    /\ menuPc = "head"
    /\ IF menuIndex <= menuCount /\ ~LoopBreaks(foundTranscript)
       THEN /\ menuPc' = "click"
            /\ menuResult' = menuResult
       ELSE /\ menuPc' = "done"
            /\ menuResult' = IF foundTranscript
                             THEN Resolved("opened")
                             ELSE Rejected(ERR_NO_OPTION(captions))
    /\ UNCHANGED <<captions, menuCount, menuIndex, foundTranscript, menuScan,
                   menuClicks, menuOther>>

\* the click on the menu button and the 1000 ms wait; an error is caught
\* and the loop goes on with the next button
ClickMenuButton ==
    /\ menuPc = "click"
    /\ menuClicks' = Append(menuClicks, ButtonClick(menuIndex))
    /\ \E threw \in BOOLEAN :
        IF threw
        THEN /\ menuScan' = "threw"
             /\ menuIndex' = menuIndex + 1
             /\ menuPc' = "head"
        ELSE /\ menuPc' = "scan"
             /\ UNCHANGED <<menuScan, menuIndex>>
    /\ UNCHANGED <<captions, menuCount, foundTranscript, menuResult,
                   menuOther>>

\* the menu items are searched: the transcript item is clicked (1500 ms),
\* or the menu is closed by a click on the body (500 ms)
ScanMenu ==
    /\ menuPc = "scan"
    /\ \E found \in BOOLEAN :
        IF found
        THEN /\ menuClicks' = Append(menuClicks, ItemClick)
             /\ foundTranscript' = TRUE
             /\ menuScan' = "found"
        ELSE /\ menuClicks' = Append(menuClicks, BodyClick)
             /\ foundTranscript' = foundTranscript
             /\ menuScan' = "absent"
    /\ menuIndex' = menuIndex + 1
    /\ menuPc' = "head"
    /\ UNCHANGED <<captions, menuCount, menuResult, menuOther>>

NextMenus ==
    \/ NoMenuButtons
    \/ LoopHead
    \/ ClickMenuButton
    \/ ScanMenu

SpecMenus == InitMenus /\ [][NextMenus]_vars

\* the places in menuClicks of the clicks on menu buttons
ButtonClickPlaces ==
    {p \in 1..Len(menuClicks) : menuClicks[p].on = "button"}

\* the places in menuClicks of the clicks on a transcript item
ItemClickPlaces == {p \in 1..Len(menuClicks) : menuClicks[p] = ItemClick}

\* C31: the menu buttons are clicked one at a time in their order (the k-th
\* click on a button is on button k); when a menu showed no transcript
\* item the click that follows is on the body, ahead of the next button;
\* after the click on a transcript item no click follows; and the fallback
\* fails exactly when no menu showed a transcript item.
C31_MenusInTurn ==
    /\ \A p \in ButtonClickPlaces :
          menuClicks[p].index =
              Cardinality({q \in ButtonClickPlaces : q <= p})
    /\ (menuScan = "absent" /\ menuPc \in {"head", "click", "done"})
          => menuClicks[Len(menuClicks)] = BodyClick
    /\ \A p \in ItemClickPlaces : p = Len(menuClicks)
    /\ menuPc = "done"
          => /\ menuResult.ok <=> ItemClickPlaces # {}
             /\ ~menuResult.ok /\ menuCount > 0
                   => menuResult = Rejected(ERR_NO_OPTION(captions))

\* two menus were opened and closed again, the fallback failed
C31_Witness ==
    /\ menuPc = "done"
    /\ menuClicks = <<ButtonClick(1), BodyClick, ButtonClick(2), BodyClick>>
    /\ menuResult = Rejected(ERR_NO_OPTION(captions))

----------------------------------------------------------------------------
(* SpecBoot: one background context from the construction of               *)
(* BackgroundService on: the calls of initialize made by the constructor   *)
(* and by the message listener, the body of initialize, and the timer set  *)
(* by scheduleCleanup, while time passes in steps of half a day.           *)

\* the listener receives up to MaxBootMessages messages
MaxBootMessages == 3

\* the clock runs for up to MaxHalfDays half days
MaxHalfDays == 5

\* setInterval(..., 24 * 60 * 60 * 1000)
CLEANUP_INTERVAL == 86400000

HALF_DAY == CLEANUP_INTERVAL \div 2

bootOther ==
    <<chunkVars, worldVars, cacheVars, coordVars, sumVars, extVars,
      msgVars, sweepVars, faultVars, selVars, ensVars, initVars, expVars,
      gateVars, menuVars, optVars, lsVars, keyVars>>

\* an initialize that does not look at this.initializationPromise
PromiseIgnored(promise) == FALSE

\* if (this.initializationPromise) return this.initializationPromise
PromiseCached(promise) == promise # "none"

\* this.initialize(): returns at once when initialized, returns the promise
\* there is, or starts the body and keeps its promise
CallInitialize ==
    IF bootInitialized \/ PromiseCached(bootPromise)
    THEN UNCHANGED <<bootPromise, bodyRuns, bodiesWaiting>>
    ELSE /\ bootPromise' = "pending"
         /\ bodyRuns' = bodyRuns + 1
         /\ bodiesWaiting' = bodiesWaiting + 1

\* the state the constructor leaves: initialize was called once, its body
\* awaits initializeGemini, the message listener is registered
InitBoot ==
    /\ bootInitialized = FALSE
    /\ bootPromise = "pending"
    /\ bodyRuns = 1
    /\ bodiesWaiting = 1
    /\ tabListeners = 0
    /\ navListeners = 0
    /\ timerStarts = {}
    /\ sweepTimers = 0
    /\ sweepFired = {}
    /\ bootClock = 0
    /\ bootMessages = 0
    \* boot: the other components idle
    /\ ChunksIdle /\ WorldIdle /\ CacheIdle /\ CoordIdle /\ SumIdle
    /\ KeyIdle
    /\ LsIdle
    /\ OptIdle
    /\ ExtIdle /\ MsgIdle /\ SweepIdle /\ FaultIdle /\ SelIdle /\ EnsIdle
    /\ InitIdle /\ ExpIdle /\ GateIdle /\ MenuIdle

\* the listener receives a message: ping and getCachedSummary are answered
\* without initialize, every other action calls this.initialize()
BootMessage ==
    /\ bootMessages < MaxBootMessages
    /\ bootMessages' = bootMessages + 1
    /\ \E action \in {"ping", "getCachedSummary", "summarizeVideo"} :
        IF action \in {"ping", "getCachedSummary"}
        THEN UNCHANGED <<bootPromise, bodyRuns, bodiesWaiting>>
        ELSE CallInitialize
    /\ UNCHANGED <<bootInitialized, tabListeners, navListeners, timerStarts,
                   sweepTimers, sweepFired, bootClock, bootOther>>

\* initializeGemini has returned (it catches its errors): the body goes on
\* with initializeTabListeners, scheduleCleanup, setupNavigationListeners
\* and sets isInitialized; an error on the way rejects the promise
BodyContinues ==
    /\ bodiesWaiting > 0
    /\ bodiesWaiting' = bodiesWaiting - 1
    /\ \E thrownAt \in {"none", "tab", "nav"} :
        /\ tabListeners' =
               IF thrownAt = "tab" THEN tabListeners ELSE tabListeners + 1
        /\ sweepTimers' =
               IF thrownAt = "tab" THEN sweepTimers ELSE sweepTimers + 1
        /\ timerStarts' =
               IF thrownAt = "tab" THEN timerStarts
               ELSE timerStarts \cup {bootClock}
        /\ navListeners' =
               IF thrownAt = "none" THEN navListeners + 1 ELSE navListeners
        /\ bootInitialized' = (bootInitialized \/ thrownAt = "none")
        /\ bootPromise' = IF thrownAt = "none" THEN "resolved" ELSE "rejected"
    /\ UNCHANGED <<bodyRuns, sweepFired, bootClock, bootMessages, bootOther>>

\* the timer started at instant start is due at instant t
Due(start, t) == t > start /\ (t - start) % CLEANUP_INTERVAL = 0

\* a timer of scheduleCleanup fires: this.cache.cleanup() is called
IntervalFires ==
    /\ \E start \in timerStarts :
        /\ Due(start, bootClock)
        /\ [timer |-> start, at |-> bootClock] \notin sweepFired
        /\ sweepFired' =
               sweepFired \cup {[timer |-> start, at |-> bootClock]}
    /\ UNCHANGED <<bootInitialized, bootPromise, bodyRuns, bodiesWaiting,
                   tabListeners, navListeners, timerStarts, sweepTimers,
                   bootClock, bootMessages, bootOther>>

\* half a day passes, once the timers due now have fired
BootTick ==
    /\ bootClock < MaxHalfDays * HALF_DAY
    /\ \A start \in timerStarts :
          Due(start, bootClock)
             => [timer |-> start, at |-> bootClock] \in sweepFired
    /\ bootClock' = bootClock + HALF_DAY
    /\ UNCHANGED <<bootInitialized, bootPromise, bodyRuns, bodiesWaiting,
                   tabListeners, navListeners, timerStarts, sweepTimers,
                   sweepFired, bootMessages, bootOther>>

NextBoot ==
    \/ BootMessage
    \/ BodyContinues
    \/ IntervalFires
    \/ BootTick

SpecBoot == InitBoot /\ [][NextBoot]_vars

\* C32: whatever messages arrive, before or after initialize has settled,
\* the body of initialize is started at most once, the tab listeners, the
\* navigation listeners and the cleanup timer are each registered at most
\* once, and the cleanups are started at the multiples of 24 hours after
\* the timer was set and at no other instant, none of them left out.
C32_InitializeOnce ==
    /\ bodyRuns <= 1
    /\ tabListeners <= 1
    /\ navListeners <= 1
    /\ sweepTimers <= 1
    /\ Cardinality(timerStarts) <= 1
    /\ \A f \in sweepFired :
          /\ f.timer \in timerStarts
          /\ f.at > f.timer
          /\ (f.at - f.timer) % 86400000 = 0
    /\ \A start \in timerStarts, k \in 1..MaxHalfDays :
          start + k * 86400000 < bootClock
             => [timer |-> start, at |-> start + k * 86400000] \in sweepFired

\* messages arrived while initialize was pending and after it, and the
\* timer, set half a day in, has fired twice
C32_Witness ==
    /\ bootMessages >= 2
    /\ bootInitialized
    /\ bodyRuns = 1
    /\ timerStarts = {HALF_DAY}
    /\ Cardinality(sweepFired) = 2

----------------------------------------------------------------------------
(* SpecOptions: two calls of GeminiService.summarize with the same videoId *)
(* and transcript, an API key and a model set, and options that may        *)
(* differ; the API answers the n-th request of both in the same way.       *)

\* SummaryOptions, two of them that differ in every field
OptionChoices ==
    {[style |-> "bullet", length |-> "short", language |-> "en",
      includeTags |-> FALSE, includeTimestamps |-> FALSE],
     [style |-> "paragraph", length |-> "long", language |-> "es",
      includeTags |-> TRUE, includeTimestamps |-> TRUE]}

optOther ==
    <<chunkVars, worldVars, cacheVars, coordVars, sumVars, extVars,
      msgVars, sweepVars, faultVars, selVars, ensVars, initVars, expVars,
      gateVars, menuVars, bootVars, lsVars, keyVars>>

\* a request whose prompt names the language and the style asked for
RequestInStyle(kind, body, options) ==
    [prompt |-> kind, text |-> body, language |-> options.language,
     style |-> options.style]

\* the body of a generation request: the prompt of its kind and the text;
\* safetySettings and generationConfig are literals
GenerationRequest(kind, body, options) == [prompt |-> kind, text |-> body]

\* a call of summarize that has not begun
FreshRun ==
    [pc |-> "start", chunks |-> <<>>, index |-> 0, attempt |-> 0,
     final |-> FALSE, text |-> <<>>, summaries |-> <<>>, content |-> <<>>,
     keyPoints |-> <<>>, requests |-> <<>>, result |-> NoResponse]

\* summarize up to its first request: cleanTranscript, splitIntoChunks, and
\* summarizeChunkWithRetry(chunk) for the first chunk
RunStart(run, options) ==
    LET split == splitIntoChunks(cleanTranscript(optTranscript),
                                 MAX_CHUNK_LENGTH)
    IN  [run EXCEPT !.pc = "call", !.chunks = split, !.index = 1,
                    !.attempt = 1, !.final = FALSE, !.text = split[1]]

\* summarizeChunkWithRetry resolved to ret (a text or null): the loop over
\* the chunks goes on, or ends and the final summary is made or asked for
RunReturned(run, options, ret) ==
    IF run.final
    THEN IF ret = Null
         THEN [run EXCEPT !.pc = "done",
                          !.result = CatchSummarize(ERR_NO_FINAL)]
         ELSE [run EXCEPT !.pc = "keyPoints", !.content = ret.text]
    ELSE LET pushed == PushSummary(run.summaries, ret)
         IN  IF run.index < Len(run.chunks)
             THEN [run EXCEPT !.summaries = pushed,
                              !.index = NextChunkIndex(@, Len(run.chunks)),
                              !.text = run.chunks[run.index + 1],
                              !.attempt = 1]
             ELSE IF Len(pushed) = 0
             THEN [run EXCEPT !.summaries = pushed, !.pc = "done",
                              !.result = CatchSummarize(ERR_NO_SUMMARIES)]
             ELSE IF Len(pushed) = 1
             THEN [run EXCEPT !.summaries = pushed, !.pc = "keyPoints",
                              !.content = pushed[1]]
             ELSE [run EXCEPT !.summaries = pushed, !.final = TRUE,
                              !.text = JoinSummaries(pushed), !.attempt = 1]

\* one attempt of summarizeChunkWithRetry: the request is sent and answered
\* with a text (answered) or not; below MAX_RETRIES it is tried again
RunAttempt(run, options, answered) ==
    LET sent == [run EXCEPT !.requests =
                     Append(@, GenerationRequest(
                                   IF run.final THEN "final" ELSE "chunk",
                                   run.text, options))]
    IN  IF answered
        THEN RunReturned(sent, options,
                         Text(IF run.final THEN FinalText
                              ELSE ChunkSummaryText(run.index)))
        ELSE IF run.attempt < MAX_RETRIES
        THEN [sent EXCEPT !.attempt = @ + 1]
        ELSE RunReturned(sent, options, Null)

\* extractKeyPoints(finalSummary)
RunKeyPoints(run, options, answered) ==
    [run EXCEPT !.pc = "topics",
                !.requests = Append(@, GenerationRequest("keyPoints",
                                                         run.content, options)),
                !.keyPoints = EnrichmentList(IF answered THEN "ok" ELSE "http",
                                             <<"k1", "k2">>)]

\* extractTopics(finalSummary), and the Summary returned
RunTopics(run, options, answered) ==
    [run EXCEPT !.pc = "done",
                !.requests = Append(@, GenerationRequest("topics",
                                                         run.content, options)),
                !.result = Success(MakeSummary("v1", run.content,
                               run.keyPoints,
                               EnrichmentList(IF answered THEN "ok" ELSE "http",
                                              <<"t1", "t2">>), 0))]

\* the next step of a call of summarize(videoId, transcript, options)
RunStep(run, options, answered) ==
    CASE run.pc = "start" -> RunStart(run, options)
      [] run.pc = "call" -> RunAttempt(run, options, answered)
      [] run.pc = "keyPoints" -> RunKeyPoints(run, options, answered)
      [] run.pc = "topics" -> RunTopics(run, options, answered)
      [] OTHER -> run

InitOptions ==
    /\ optTranscript \in SummarizeInputs
    /\ optA \in OptionChoices
    /\ optB \in OptionChoices
    /\ runA = FreshRun
    /\ runB = FreshRun
    \* opt: the other components idle
    /\ ChunksIdle /\ WorldIdle /\ CacheIdle /\ CoordIdle /\ SumIdle
    /\ KeyIdle
    /\ LsIdle
    /\ ExtIdle /\ MsgIdle /\ SweepIdle /\ FaultIdle /\ SelIdle /\ EnsIdle
    /\ InitIdle /\ ExpIdle /\ GateIdle /\ MenuIdle /\ BootIdle

\* both calls take their next step; the API answers both alike
BothStep ==
    /\ runA.pc # "done" \/ runB.pc # "done"
    /\ \E answered \in BOOLEAN :
        /\ runA' = RunStep(runA, optA, answered)
        /\ runB' = RunStep(runB, optB, answered)
    /\ UNCHANGED <<optTranscript, optA, optB, optOther>>

NextOptions == BothStep

SpecOptions == InitOptions /\ [][NextOptions]_vars

\* C33: the two calls send the same generation requests, and when they have
\* returned, both failed with the same error or both succeeded with the
\* same content, keyPoints and topics and with language 'en'.
C33_OptionsIgnored ==
    /\ runA.requests = runB.requests
    /\ (runA.pc = "done" \/ runB.pc = "done")
          => /\ runA.pc = runB.pc
             /\ runA.result.success = runB.result.success
             /\ ~runA.result.success
                   => runA.result.error = runB.result.error
             /\ runA.result.success
                   => /\ runA.result.data.content = runB.result.data.content
                      /\ runA.result.data.keyPoints
                            = runB.result.data.keyPoints
                      /\ runA.result.data.topics = runB.result.data.topics
                      /\ runA.result.data.language = "en"
                      /\ runB.result.data.language = "en"

\* two calls with different options, one of them asking for Spanish, have
\* returned a summary made from several chunk summaries
C33_Witness ==
    /\ optA # optB
    /\ runA.pc = "done"
    /\ runA.result.success
    /\ Len(runA.summaries) >= 2
    /\ Len(runA.requests) >= 5

----------------------------------------------------------------------------
(* SpecListener: requests delivered to the onMessage listener of the       *)
(* background service and to that of the content script, each followed     *)
(* from its delivery to the calls of sendResponse made for it.  Both       *)
(* contexts start with their initialization pending.                       *)

\* up to MaxDelivered requests are delivered
MaxDelivered == 2

ListenerActions ==
    [coordinator |-> {"ping", "getCachedSummary", "summarizeVideo",
                      "setApiKey"},
     extractor |-> {"ping", "getTranscript"}]

lsOther ==
    <<chunkVars, worldVars, cacheVars, coordVars, sumVars, extVars,
      msgVars, sweepVars, faultVars, selVars, ensVars, initVars, expVars,
      gateVars, menuVars, bootVars, optVars, keyVars>>

InitListener ==
    /\ lsInit = "pending"
    /\ lsContent = "pending"
    /\ lsReq = <<>>
    \* ls: the other components idle
    /\ ChunksIdle /\ WorldIdle /\ CacheIdle /\ CoordIdle /\ SumIdle
    /\ KeyIdle
    /\ ExtIdle /\ MsgIdle /\ SweepIdle /\ FaultIdle /\ SelIdle /\ EnsIdle
    /\ InitIdle /\ ExpIdle /\ GateIdle /\ MenuIdle /\ BootIdle /\ OptIdle

\* a background listener that sends every action through initialize
EveryActionWaits(action) == TRUE

\* the background listener: ping and getCachedSummary return before
\* this.initialize().then(...)
WaitsForInitialize(action) == action \notin {"ping", "getCachedSummary"}

\* a content script listener without the catch after initializeContentScript
InitFailureDropped(count) == count

\* .catch(error => { sendResponse({ success: false, error: ... }) })
InitFailureAnswered(count) == count + 1

\* where a request delivered to the listener of context stands when the
\* listener returns, and the calls of sendResponse made by then
Delivered(context, action) ==
    IF action = "ping"
    THEN IF context = "coordinator" /\ WaitsForInitialize(action)
         THEN [context |-> context, action |-> action, stage |-> "waitInit",
               responses |-> 0]
         ELSE [context |-> context, action |-> action, stage |-> "done",
               responses |-> 1]
    ELSE IF context = "coordinator"
    THEN [context |-> context, action |-> action,
          stage |-> IF WaitsForInitialize(action) THEN "waitInit"
                    ELSE "handling",
          responses |-> 0]
    ELSE [context |-> context, action |-> action,
          stage |-> IF lsContent = "resolved" THEN "handling" ELSE "waitInit",
          responses |-> 0]

\* a listener is called with a request
Deliver ==
    /\ Len(lsReq) < MaxDelivered
    /\ \E context \in {"coordinator", "extractor"} :
        \E action \in ListenerActions[context] :
            lsReq' = Append(lsReq, Delivered(context, action))
    /\ UNCHANGED <<lsInit, lsContent, lsOther>>

\* BackgroundService.initialize resolves (initializeGemini catches what its
\* external calls reject with)
CoordinatorInitResolves ==
    /\ lsInit = "pending"
    /\ lsInit' = "resolved"
    /\ UNCHANGED <<lsContent, lsReq, lsOther>>

\* initializeContentScript settles: resolve() once the page is a watch page
\* with its player, reject(error) after MAX_INIT_ATTEMPTS attempts
ContentInitSettles ==
    /\ lsContent = "pending"
    /\ \E outcome \in {"resolved", "rejected"} : lsContent' = outcome
    /\ UNCHANGED <<lsInit, lsReq, lsOther>>

\* the then after this.initialize() runs: handleMessage is called
CoordinatorDispatch(i) ==
    /\ lsReq[i].context = "coordinator"
    /\ lsReq[i].stage = "waitInit"
    /\ lsInit = "resolved"
    /\ lsReq' = [lsReq EXCEPT ![i].stage = "handling"]
    /\ UNCHANGED <<lsInit, lsContent, lsOther>>

\* the then or the catch after initializeContentScript() runs
ContentDispatch(i) ==
    /\ lsReq[i].context = "extractor"
    /\ lsReq[i].stage = "waitInit"
    /\ lsContent # "pending"
    /\ lsReq' = IF lsContent = "resolved"
                THEN [lsReq EXCEPT ![i].stage = "handling"]
                ELSE [lsReq EXCEPT ![i].stage = "done",
                                   ![i].responses = InitFailureAnswered(@)]
    /\ UNCHANGED <<lsInit, lsContent, lsOther>>

\* the handler of the request settles: handleCacheRequest, the then or the
\* catch after handleMessage (background), the then or the catch after
\* extractTranscript (content script); each calls sendResponse
HandlerSettles(i) ==
    /\ lsReq[i].stage = "handling"
    /\ lsReq' = [lsReq EXCEPT ![i].stage = "done", ![i].responses = @ + 1]
    /\ UNCHANGED <<lsInit, lsContent, lsOther>>

\* what goes on once requests are delivered, but for the initialization of
\* the background service
ListenerStep ==
    \/ ContentInitSettles
    \/ \E i \in 1..MaxDelivered :
        /\ i <= Len(lsReq)
        /\ \/ CoordinatorDispatch(i)
           \/ ContentDispatch(i)
           \/ HandlerSettles(i)

NextListener ==
    \/ Deliver
    \/ CoordinatorInitResolves
    \/ ContentInitSettles
    \/ \E i \in 1..MaxDelivered :
        /\ i <= Len(lsReq)
        /\ \/ CoordinatorDispatch(i)
           \/ ContentDispatch(i)
           \/ HandlerSettles(i)

SpecListener == InitListener /\ [][NextListener]_vars

\* every external call returns or rejects: both initializations settle and
\* every handler does
SpecListenerFair ==
    SpecListener /\ WF_vars(CoordinatorInitResolves) /\ WF_vars(ListenerStep)

\* the initialization of the background service may stay pending for ever;
\* everything else settles
SpecListenerStalled == SpecListener /\ WF_vars(ListenerStep)

\* the i-th request delivered, or a place holder while there is none
RequestAt(i) ==
    IF i <= Len(lsReq) THEN lsReq[i]
    ELSE [context |-> "none", action |-> "none", stage |-> "none",
          responses |-> 0]

C37_PingAndCacheSkipInit ==
    /\ [](\A i \in 1..Len(lsReq) :
            (/\ lsReq[i].context = "coordinator"
             /\ lsReq[i].action \notin {"ping", "getCachedSummary"}
             /\ lsReq[i].stage \in {"handling", "done"})
                => lsInit = "resolved")
    /\ \A i \in 1..MaxDelivered :
          (/\ RequestAt(i).context = "coordinator"
           /\ RequestAt(i).action \in {"ping", "getCachedSummary"})
             ~> (RequestAt(i).stage = "done" /\ RequestAt(i).responses = 1)

\* the initialization is pending; a getCachedSummary has been answered and
\* a summarizeVideo waits
C37_Witness ==
    /\ lsInit = "pending"
    /\ \E i \in 1..Len(lsReq), j \in 1..Len(lsReq) :
          /\ lsReq[i] = [context |-> "coordinator",
                         action |-> "getCachedSummary",
                         stage |-> "done", responses |-> 1]
          /\ lsReq[j] = [context |-> "coordinator",
                         action |-> "summarizeVideo",
                         stage |-> "waitInit", responses |-> 0]

(***************************************************************************)
(* SpecSetKey: handleSetApiKey (background.ts 356-367) over                *)
(* GeminiService.initialize and findAndSetModel (part_000 661-718).  The   *)
(* listing is what the models endpoint would return; each request of the   *)
(* endpoint may also fail.                                                 *)
(***************************************************************************)

MaxKeyRequests == 2

ApiKeys == {"k1", "k2"}

\* what the rejected chrome.storage.sync.set is reported as
ERR_SYNC_SET == "storage.sync.set rejected"

keyOther ==
    <<chunkVars, worldVars, cacheVars, coordVars, sumVars, extVars,
      msgVars, sweepVars, faultVars, ensVars, initVars, expVars, gateVars,
      menuVars, bootVars, optVars, lsVars>>

\* after construction: no key is stored, or the stored key was given to
\* initialize by initializeGemini, whose model discovery succeeded or failed
InitSetKey ==
    /\ listing \in Listings
    /\ storedKey \in {"none", "k1"}
    /\ clientKey = storedKey
    /\ selModel \in (IF storedKey = "none"
                     THEN {NoModel}
                     ELSE {NoModel, "models/gemini-pro"})
    /\ selPc = "off"
    /\ selResult = NoOutcome
    /\ keyPc = "idle"
    /\ keyArg = "none"
    /\ keyReply = NoResponse
    /\ keyBefore = <<>>
    /\ keyCount = 0
    \* key: the other components idle
    /\ ChunksIdle /\ WorldIdle /\ CacheIdle /\ CoordIdle /\ SumIdle
    /\ LsIdle
    /\ OptIdle
    /\ BootIdle
    /\ MenuIdle
    /\ GateIdle
    /\ ExpIdle
    /\ InitIdle
    /\ EnsIdle
    /\ ExtIdle
    /\ MsgIdle
    /\ SweepIdle
    /\ FaultIdle

\* summarize gets past its apiKey check and apiEndpoint finds a model
SummarizeWorks(key, selected) == key # "none" /\ selected # NoModel

\* a setApiKey message reaches handleSetApiKey
SetApiKeyReceived ==
    /\ keyPc \in {"idle", "answered"}
    /\ keyCount < MaxKeyRequests
    /\ \E k \in ApiKeys : keyArg' = k
    /\ keyBefore' = [stored |-> storedKey, apiKey |-> clientKey,
                     model |-> selModel]
    /\ keyReply' = NoResponse
    /\ keyCount' = keyCount + 1
    /\ keyPc' = "persist"
    /\ UNCHANGED <<storedKey, clientKey, selVars, keyOther>>

\* await chrome.storage.sync.set({ geminiApiKey: apiKey }): the key is
\* stored, or the call rejects and the catch returns the failure
SyncSetSettles ==
    /\ keyPc = "persist"
    /\ \E stored \in BOOLEAN :
        IF stored
        THEN /\ storedKey' = keyArg
             /\ keyPc' = "initialize"
             /\ keyReply' = keyReply
        ELSE /\ storedKey' = storedKey
             /\ keyPc' = "answered"
             /\ keyReply' = [sent |-> TRUE, success |-> FALSE,
                              error |-> ERR_SYNC_SET]
    /\ UNCHANGED <<clientKey, keyArg, keyBefore, keyCount, selVars, keyOther>>

\* this.gemini.initialize(apiKey) up to the listing request: the key is
\* assigned and the model reset
GeminiInitialize ==
    /\ keyPc = "initialize"
    /\ clientKey' = keyArg
    /\ selModel' = NoModel
    /\ selPc' = "listing"
    /\ selResult' = NoOutcome
    /\ keyPc' = "discovery"
    /\ UNCHANGED <<storedKey, keyArg, keyReply, keyBefore, keyCount, listing,
                   keyOther>>

\* initialize settled: { success: true }, or the catch returns the failure
SetApiKeyAnswers ==
    /\ keyPc = "discovery"
    /\ selPc = "done"
    /\ keyReply' = [sent |-> TRUE, success |-> selResult.ok,
                     error |-> IF selResult.ok THEN "none"
                                               ELSE selResult.error]
    /\ keyPc' = "answered"
    /\ selPc' = "off"
    /\ selResult' = NoOutcome
    /\ UNCHANGED <<storedKey, clientKey, keyArg, keyBefore, keyCount,
                   listing, selModel, keyOther>>

NextSetKey ==
    \/ SetApiKeyReceived
    \/ SyncSetSettles
    \/ GeminiInitialize
    \/ ListingResolves
    \/ SetApiKeyAnswers

SpecSetKey == InitSetKey /\ [][NextSetKey]_vars

\* handleSetApiKey returned { success: false } after initialize rejected
DiscoveryFailed ==
    /\ keyPc = "answered"
    /\ keyReply.sent
    /\ ~keyReply.success
    /\ keyReply.error \in {ERR_LISTING, ERR_NO_MODEL}

\* C38: a setApiKey request whose model discovery failed reports
\* { success: false } and leaves the stored geminiApiKey, the client's apiKey
\* and its selected model as the request found them, so that a summarize
\* that got past its key and model checks before still does
C38_FailedSetApiKeyChangesNothing ==
    DiscoveryFailed =>
        /\ storedKey = keyBefore.stored
        /\ clientKey = keyBefore.apiKey
        /\ selModel = keyBefore.model
        /\ SummarizeWorks(keyBefore.apiKey, keyBefore.model)
               => SummarizeWorks(clientKey, selModel)

\* a setApiKey that is answered with a failure has lost the model: every
\* failure of the discovery leaves the model reset
FailedDiscoveryLosesModel ==
    DiscoveryFailed => selModel = NoModel

\* a client that summarized before a failed setApiKey no longer does
WorkingClientBroken ==
    /\ DiscoveryFailed
    /\ SummarizeWorks(keyBefore.apiKey, keyBefore.model)
    /\ ~SummarizeWorks(clientKey, selModel)

(***************************************************************************)
(* SpecCacheKeys: the four summary operations of CacheService called one   *)
(* after another, with time passing between calls (part_000 1132-1205).    *)
(***************************************************************************)

\* the key removeSummary builds: CacheService.SUMMARY_PREFIX + videoId
SummaryKey(videoId) == <<SUMMARY_PREFIX, videoId>>

\* key.startsWith(CacheService.SUMMARY_PREFIX): 'yt_summary_...' and
\* 'user_preferences' do not start with 'summary_'
StartsWithSummaryPrefix(key) == key[1] = SUMMARY_PREFIX

\* the keys getAllSummaries pushes the data of: entry.expiresAt > Date.now()
ListedKeys(st, t) ==
    {k \in StorageKeys : /\ StartsWithSummaryPrefix(k)
                         /\ st[k].present
                         /\ st[k].expiresAt > t}

\* the keys getAllSummaries removes
StaleListedKeys(st, t) ==
    {k \in StorageKeys : /\ StartsWithSummaryPrefix(k)
                         /\ st[k].present
                         /\ st[k].expiresAt <= t}

\* summaries.sort((a, b) => b.timestamp - a.timestamp): the orders of the
\* listed keys with no later timestamp before an earlier one
SortedListings(st, keys) ==
    {f \in [1..Cardinality(keys) -> keys] :
        /\ \A i, j \in DOMAIN f : i # j => f[i] # f[j]
        /\ \A i, j \in DOMAIN f :
               i < j => st[f[i]].data.timestamp >= st[f[j]].data.timestamp}

\* CacheService.removeSummary(videoId), from call to return
RemoveSummaryCall(videoId) ==
    /\ store' = StoreRemove(store, SummaryKey(videoId))
    /\ lastCall' = [name |-> "removeSummary", videoId |-> videoId,
                    at |-> now, returned |-> Undefined]
    /\ UNCHANGED <<now, written, chunkVars, coordVars, sumVars, extraVars>>

\* CacheService.getAllSummaries(), from call to return
GetAllSummariesCall ==
    /\ \E order \in SortedListings(store, ListedKeys(store, now)) :
           lastCall' = [name |-> "getAllSummaries", videoId |-> "none",
                        at |-> now,
                        returned |-> [i \in DOMAIN order |->
                                          store[order[i]].data]]
    /\ store' = StoreRemoveAll(store, StaleListedKeys(store, now))
    /\ UNCHANGED <<now, written, chunkVars, coordVars, sumVars, extraVars>>

NextCacheKeys ==
    \/ \E v \in VideoIds : GetSummaryCall(v)
    \/ \E v \in VideoIds, c \in Contents :
           SetSummaryCall(v, MakeSummary(v, c, <<>>, <<>>, now))
    \/ \E v \in VideoIds : RemoveSummaryCall(v)
    \/ GetAllSummariesCall
    \/ CacheTick

SpecCacheKeys == InitCache /\ [][NextCacheKeys]_vars

\* what getSummary(videoId) would return, called at the instant of the
\* latest call
WouldReturn(videoId) == CacheLookup(store, lastCall.at, videoId).data

\* getSummary would return the summary of videoId, which setSummary wrote
\* less than CACHE_DURATION before the latest call
Unexpired(videoId) ==
    /\ written[videoId].done
    /\ lastCall.at < Deadline(videoId)
    /\ WouldReturn(videoId) # Null

\* C40: the summary operations agree on the key: what setSummary(videoId)
\* wrote is what getSummary(videoId) returns, after removeSummary(videoId)
\* getSummary(videoId) returns null, and getAllSummaries lists every summary
\* that getSummary still returns and that is unexpired.
C40_OperationsAgreeOnKey ==
    /\ lastCall.name = "setSummary"
           => WouldReturn(lastCall.videoId) = written[lastCall.videoId].summary
    /\ lastCall.name = "removeSummary"
           => WouldReturn(lastCall.videoId) = Null
    /\ lastCall.name = "getAllSummaries"
           => \A v \in VideoIds :
                  Unexpired(v)
                      => \E i \in DOMAIN lastCall.returned :
                             lastCall.returned[i] = WouldReturn(v)

\* setSummary and getSummary do agree
SetThenGetAgree ==
    lastCall.name = "setSummary"
        => WouldReturn(lastCall.videoId) = written[lastCall.videoId].summary

\* removeSummary leaves every entry that setSummary wrote
RemoveSummaryRemovesNothing ==
    [][\A v \in VideoIds : RemoveSummaryCall(v) => store' = store]_vars

\* getAllSummaries lists nothing, whatever setSummary has written
ListingAlwaysEmpty ==
    lastCall.name = "getAllSummaries" => lastCall.returned = <<>>

\* removeSummary returned and getSummary still returns the summary
RemovedYetReturned ==
    /\ lastCall.name = "removeSummary"
    /\ WouldReturn(lastCall.videoId) # Null

\* getAllSummaries returned without a summary that getSummary returns
ReturnedYetUnlisted ==
    /\ lastCall.name = "getAllSummaries"
    /\ \E v \in VideoIds : Unexpired(v)

====
